---- MODULE Spec2Model ----
(***************************************************************************)
(* Interview orchestration engine of breeze-agent: the per-editor          *)
(* conversation graph (initialize, ask_question, search_context,           *)
(* generate_answer, next_editor with the route_messages router), the       *)
(* serial conductor that drives one shared conversation through the whole  *)
(* editor registry, and the parallel conductor that runs one conversation  *)
(* per editor behind an asyncio.Semaphore and merges the results.          *)
(*                                                                         *)
(* Python strings are sequences of one-character strings, so that          *)
(* sanitize_name, the `in` substring test, str.endswith and the f-string   *)
(* concatenations are computed as the code computes them.                  *)
(***************************************************************************)
EXTENDS Integers, Sequences, FiniteSets, TLC

(***************************************************************************)
(* String helpers                                                          *)
(***************************************************************************)

\* Python `needle in haystack` on strings.
IsSubstring(needle, haystack) ==
    \E i \in 0..(Len(haystack) - Len(needle)) :
        SubSeq(haystack, i + 1, i + Len(needle)) = needle

\* Python str.endswith.
EndsWith(text, suffix) ==
    /\ Len(suffix) <= Len(text)
    /\ SubSeq(text, Len(text) - Len(suffix) + 1, Len(text)) = suffix

\* The characters the regular expression [a-zA-Z0-9_-] accepts.
SafeChars ==
    {"a", "b", "c", "d", "e", "f", "g", "h", "i", "j", "k", "l", "m", "n",
     "o", "p", "q", "r", "s", "t", "u", "v", "w", "x", "y", "z",
     "A", "B", "C", "D", "E", "F", "G", "H", "I", "J", "K", "L", "M", "N",
     "O", "P", "Q", "R", "S", "T", "U", "V", "W", "X", "Y", "Z",
     "0", "1", "2", "3", "4", "5", "6", "7", "8", "9", "_", "-"}

\* re.sub(r'[^a-zA-Z0-9_-]', '_', name)
sanitize_name(name) ==
    [i \in 1..Len(name) |-> IF name[i] \in SafeChars THEN name[i] ELSE "_"]

\* str(n) for the small numbers the model reaches.
DecimalDigits ==
    <<"0", "1", "2", "3", "4", "5", "6", "7", "8", "9">>

IntToStr(n) ==
    IF n < 10 THEN <<DecimalDigits[n + 1]>>
    ELSE <<DecimalDigits[(n \div 10) + 1], DecimalDigits[(n % 10) + 1]>>

(***************************************************************************)
(* Program constants                                                       *)
(***************************************************************************)

MAX_TURNS ==
    3

EXPERT_NAME ==
    <<"e", "x", "p", "e", "r", "t">>

SYSTEM_NAME ==
    <<"s", "y", "s", "t", "e", "m">>

THANKS_PHRASE ==
    <<"T", "h", "a", "n", "k", " ", "y", "o", "u", " ", "s", "o", " ", "m",
      "u", "c", "h", " ", "f", "o", "r", " ", "y", "o", "u", "r", " ", "h",
      "e", "l", "p", "!">>

NEXT_SEP_PREFIX ==
    <<"\n", "-", "-", "-", " ", "S", "t", "a", "r", "t", "i", "n", "g", " ",
      "i", "n", "t", "e", "r", "v", "i", "e", "w", " ", "w", "i", "t", "h",
      " ">>

MERGE_SEP_PREFIX ==
    <<"\n", "-", "-", "-", " ", "I", "n", "t", "e", "r", "v", "i", "e", "w",
      " ", "w", "i", "t", "h", " ">>

SEP_SUFFIX ==
    <<" ", "-", "-", "-", "\n">>

OPENING_TEXT ==
    <<"S", "o", " ", "y", "o", "u", " ", "s", "a", "i", "d", " ", "y", "o",
      "u", " ", "w", "e", "r", "e", " ", "w", "r", "i", "t", "i", "n", "g",
      " ", "a", "n", " ", "a", "r", "t", "i", "c", "l", "e", " ", "o", "n",
      " ", "t", "h", "i", "s", " ", "t", "o", "p", "i", "c", "?">>

SOURCE_PREFIX ==
    <<"s", "o", "u", "r", "c", "e", "_">>

\* RetryPolicy(max_attempts=...) of the three retried nodes.
ASK_MAX_ATTEMPTS ==
    5

SEARCH_MAX_ATTEMPTS ==
    3

ANSWER_MAX_ATTEMPTS ==
    5

(***************************************************************************)
(* Messages                                                                *)
(***************************************************************************)

\* The name of a message built without one (Python None): equal to no name.
NoName ==
    <<"">>

\* additional_kwargs == {} (falsy in Python).
NoKwargs ==
    [set |-> FALSE, wants_to_end |-> FALSE]

\* additional_kwargs == {"wants_to_end": b, "end_reason": ...}
EndKwargs(b) ==
    [set |-> TRUE, wants_to_end |-> b]

\* The id of a message built without one (Python None).
NoId ==
    0

AIMessage(content, name, kwargs) ==
    [type |-> "ai", id |-> NoId, name |-> name, content |-> content,
     additional_kwargs |-> kwargs]

\* A conversion that keeps the content but drops the speaker's name.
HumanMessage_unnamed(fields) ==
    [fields EXCEPT !.type = "human", !.name = NoName]

\* HumanMessage(**message.dict(exclude={"type"})): every field but the type.
HumanMessage(fields) ==
    [fields EXCEPT !.type = "human"]

IsAI(m) ==
    m.type = "ai"

IsHuman(m) ==
    m.type = "human"

\* A conversion that flips the label of every message of another speaker,
\* whatever label it has.
SwapOne_toggle(message, name) ==
    IF message.name # name
    THEN [message EXCEPT !.type = IF @ = "ai" THEN "human" ELSE "ai"]
    ELSE message

\* swap_roles, loop body: an AIMessage of another speaker becomes a
\* HumanMessage with the same fields; everything else is kept.
SwapOne(message, name) ==
    IF IsAI(message) /\ message.name # name
    THEN HumanMessage(message)
    ELSE message

\* swap_roles: the converted message list (the other InterviewState fields
\* are copied unchanged).
swap_roles(messages, name) ==
    [i \in 1..Len(messages) |-> SwapOne(messages[i], name)]

\* The largest id of the messages (0 when none has one).
MaxId(messages) ==
    IF messages = <<>>
    THEN NoId
    ELSE LET ids == {messages[i].id : i \in 1..Len(messages)}
         IN  CHOOSE x \in ids : \A y \in ids : y <= x

\* The `assign missing ids` step of add_messages: a message without an id
\* gets one no message of the log has.
WithIds(messages, used) ==
    [j \in 1..Len(messages) |->
        IF messages[j].id = NoId
        THEN [messages[j] EXCEPT !.id = used + j]
        ELSE messages[j]]

RECURSIVE MergeById(_, _, _)
\* The merge loop of add_messages: a message whose id is in `left` replaces
\* the message with that id, any other message is appended.
MergeById(merged, left, right) ==
    IF right = <<>>
    THEN merged
    ELSE LET m == Head(right)
             same == {i \in 1..Len(left) : left[i].id = m.id}
         IN  MergeById(IF same = {}
                       THEN Append(merged, m)
                       ELSE [merged EXCEPT ![CHOOSE i \in same : TRUE] = m],
                       left, Tail(right))

\* The reducer of InterviewState.messages.
add_messages(left, right) ==
    LET used == MaxId(left \o right)
        old == WithIds(left, used + Len(right))
        new == WithIds(right, used)
    IN  MergeById(old, old, new)

(***************************************************************************)
(* Editors, perspectives and the reference map                             *)
(***************************************************************************)

\* Editor(name=...): role, affiliation and description only feed the prompt.
Editor(name) ==
    [name |-> name]

\* InterviewState.editor is None.
NoEditor ==
    [name |-> NoName]

\* state.perspectives: None, a Perspectives object or a plain dict.
NoPerspectives ==
    [kind |-> "none", editors |-> <<>>]

Perspectives(editors) ==
    [kind |-> "object", editors |-> editors]

PerspectivesDict(editors) ==
    [kind |-> "dict", editors |-> editors]

\* A Python dict keeps insertion order: a sequence of entries with unique keys.
RefKeys(refs) ==
    {refs[i].url : i \in 1..Len(refs)}

RefIndex(refs, url) ==
    CHOOSE i \in 1..Len(refs) : refs[i].url = url

\* refs[url] = content
RefPut(refs, url, content) ==
    IF url \in RefKeys(refs)
    THEN [refs EXCEPT ![RefIndex(refs, url)].content = content]
    ELSE Append(refs, [url |-> url, content |-> content])

(***************************************************************************)
(* Router                                                                  *)
(***************************************************************************)

SetMin(S) ==
    CHOOSE x \in S : \A y \in S : x <= y

\* The loop with `break`: the 0-based index of the first system message whose
\* content contains the sanitized editor name, 0 when there is none.
conversation_start(messages, current_editor_name) ==
    LET hits == {i \in 1..Len(messages) :
                    /\ IsAI(messages[i])
                    /\ messages[i].name = SYSTEM_NAME
                    /\ IsSubstring(current_editor_name, messages[i].content)}
    IN  IF hits = {} THEN 0 ELSE SetMin(hits) - 1

\* messages[conversation_start:]
current_segment(state) ==
    LET start == conversation_start(state.messages,
                                    sanitize_name(state.editor.name))
    IN  SubSeq(state.messages, start + 1, Len(state.messages))

\* len([m for m in current_messages if AIMessage and name == EXPERT_NAME])
expert_responses(current_messages) ==
    Cardinality({i \in 1..Len(current_messages) :
                    /\ IsAI(current_messages[i])
                    /\ current_messages[i].name = EXPERT_NAME})

\* The wants_to_end test on current_messages[-2].
prev_wants_to_end(current_messages, current_editor_name) ==
    /\ Len(current_messages) >= 2
    /\ LET prev_message == current_messages[Len(current_messages) - 1]
       IN  /\ IsAI(prev_message)
           /\ prev_message.name = current_editor_name
           /\ prev_message.additional_kwargs.set
           /\ prev_message.additional_kwargs.wants_to_end

route_messages(state) ==
    IF state.messages = <<>>
    THEN "end"
    ELSE LET current_editor_name == sanitize_name(state.editor.name)
             current_messages == current_segment(state)
             last_message == current_messages[Len(current_messages)]
         IN  IF IsAI(last_message) /\ last_message.name = EXPERT_NAME
             THEN IF prev_wants_to_end(current_messages, current_editor_name)
                  THEN "next_editor"
                  ELSE IF expert_responses(current_messages) >= MAX_TURNS
                       THEN "next_editor"
                       ELSE "ask_question"
             ELSE "ask_question"

(***************************************************************************)
(* Conversation state and the graph nodes                                  *)
(***************************************************************************)

\* InterviewState(messages=..., editor=..., references=..., editors=...,
\* current_editor_index=...): is_complete and perspectives take their
\* defaults unless given.
InterviewState(messages, references, editor, editors, index, complete) ==
    [messages |-> messages, references |-> references, editor |-> editor,
     editors |-> editors, current_editor_index |-> index,
     is_complete |-> complete, perspectives |-> NoPerspectives]

\* The graph's state before `initialize` ran: the fields of the State given
\* to ainvoke, the others at their InterviewState defaults.
GraphInput(messages, perspectives, references) ==
    [messages |-> add_messages(<<>>, messages), references |-> references,
     editor |-> NoEditor, editors |-> <<>>, current_editor_index |-> 0,
     is_complete |-> FALSE,
     perspectives |-> perspectives]

\* nodes/initialize.py: only a Perspectives object with editors is accepted.
extract_editors_initialize(perspectives) ==
    IF perspectives.kind = "none"
    THEN [ok |-> FALSE, editors |-> <<>>]
    ELSE IF perspectives.kind = "object"
         THEN IF perspectives.editors = <<>>
              THEN [ok |-> FALSE, editors |-> <<>>]
              ELSE [ok |-> TRUE, editors |-> perspectives.editors]
         ELSE [ok |-> FALSE, editors |-> <<>>]

\* An extraction without the two `raise ValueError` guards.
extract_editors_unchecked(perspectives) ==
    [ok |-> TRUE, editors |-> perspectives.editors]

\* parallel_conductor.py: a Perspectives object or a dict, with editors.
extract_editors_parallel(perspectives) ==
    IF perspectives.kind = "none"
    THEN [ok |-> FALSE, editors |-> <<>>]
    ELSE IF perspectives.editors = <<>>
         THEN [ok |-> FALSE, editors |-> <<>>]
         ELSE [ok |-> TRUE, editors |-> perspectives.editors]

initial_message ==
    AIMessage(OPENING_TEXT, EXPERT_NAME, NoKwargs)

\* initialize_interview, after the editors were extracted.
\* initialize making the last editor of the registry the current one.
initialize_interview_last(editors_list) ==
    InterviewState(<<initial_message>>, <<>>, editors_list[Len(editors_list)],
                   editors_list, 0, FALSE)

initialize_interview(editors_list) ==
    InterviewState(<<initial_message>>, <<>>, editors_list[1], editors_list,
                   0, FALSE)

\* generate_question: the structured call returned (message, wants_to_end).
question_structured(state, content, wants_to_end) ==
    InterviewState(
        Append(state.messages,
               AIMessage(content, sanitize_name(state.editor.name),
                         EndKwargs(wants_to_end))),
        state.references, state.editor, state.editors,
        state.current_editor_index, FALSE)

\* generate_question: the structured call raised and the plain call returned.
\* The fallback message left without a name.
question_fallback_anonymous(state, content) ==
    InterviewState(
        Append(state.messages, AIMessage(content, NoName, NoKwargs)),
        state.references, state.editor, state.editors,
        state.current_editor_index, FALSE)

question_fallback(state, content) ==
    InterviewState(
        Append(state.messages,
               AIMessage(content, sanitize_name(state.editor.name), NoKwargs)),
        state.references, state.editor, state.editors,
        state.current_editor_index, FALSE)

\* search_for_context: the last HumanMessage of the role-swapped log.
HasLastQuestion(state) ==
    LET swapped == swap_roles(state.messages, EXPERT_NAME)
    IN  \E i \in 1..Len(swapped) : IsHuman(swapped[i])

RECURSIVE StoreResults(_, _)
\* The loop over search_results: a dict result is stored under its url, a
\* string result under "source_<len(references)>".
StoreResults(references, search_results) ==
    IF search_results = <<>>
    THEN references
    ELSE LET result == Head(search_results)
             key == IF result.kind = "dict"
                    THEN result.url
                    ELSE SOURCE_PREFIX \o IntToStr(Len(references))
         IN  StoreResults(RefPut(references, key, result.content),
                          Tail(search_results))

\* search_for_context, given what search() returned.
search_for_context(state, search_results) ==
    IF ~HasLastQuestion(state)
    THEN state
    ELSE IF search_results # <<>>
         THEN InterviewState(state.messages,
                             StoreResults(state.references, search_results),
                             state.editor, state.editors,
                             state.current_editor_index, FALSE)
         ELSE state

\* An answer written over the last message of the log and not after it.
generate_expert_answer_overwrite(state, content) ==
    IF content = <<>>
    THEN state
    ELSE InterviewState(
             [state.messages EXCEPT
                 ![Len(state.messages)] =
                     [@ EXCEPT !.content = content, !.name = EXPERT_NAME]],
             state.references, state.editor, state.editors,
             state.current_editor_index, FALSE)

\* generate_expert_answer, given the content the model returned.
generate_expert_answer(state, content) ==
    IF content = <<>>
    THEN state
    ELSE InterviewState(
             Append(state.messages,
                    AIMessage(content, EXPERT_NAME, NoKwargs)),
             state.references, state.editor, state.editors,
             state.current_editor_index, FALSE)

\* A separator that names nobody.
next_separator_anonymous(editor) ==
    AIMessage(NEXT_SEP_PREFIX \o SEP_SUFFIX, SYSTEM_NAME, NoKwargs)

next_separator(editor) ==
    AIMessage(NEXT_SEP_PREFIX \o editor.name \o SEP_SUFFIX, SYSTEM_NAME,
              NoKwargs)

\* A next_editor that declares the session complete one editor early.
\* next_editor going back to the first editor of the registry.
next_editor_restarting(state) ==
    LET next_index == state.current_editor_index + 1
    IN  IF next_index >= Len(state.editors)
        THEN InterviewState(state.messages, state.references, state.editor,
                            state.editors, next_index, TRUE)
        ELSE InterviewState(
                 state.messages
                     \o <<next_separator(state.editors[1]), initial_message>>,
                 state.references, state.editors[1], state.editors,
                 next_index, FALSE)

next_editor_early(state) ==
    LET next_index == state.current_editor_index + 1
    IN  IF next_index >= Len(state.editors) - 1
        THEN InterviewState(state.messages, state.references, state.editor,
                            state.editors, next_index, TRUE)
        ELSE InterviewState(
                 state.messages
                     \o <<next_separator(state.editors[next_index + 1]),
                          initial_message>>,
                 state.references, state.editors[next_index + 1],
                 state.editors, next_index, FALSE)

next_editor(state) ==
    LET next_index == state.current_editor_index + 1
    IN  IF next_index >= Len(state.editors)
        THEN InterviewState(state.messages, state.references, state.editor,
                            state.editors, next_index, TRUE)
        ELSE InterviewState(
                 state.messages
                     \o <<next_separator(state.editors[next_index + 1]),
                          initial_message>>,
                 state.references, state.editors[next_index + 1],
                 state.editors, next_index, FALSE)

\* The conditional edge after generate_answer.
AfterAnswer(state) ==
    LET route == route_messages(state)
    IN  IF route = "end" THEN "END" ELSE route

\* The conditional edge after next_editor.
AfterNextEditor(state) ==
    IF state.is_complete THEN "END" ELSE "ask_question"

(***************************************************************************)
(* Conductors: results and merging                                         *)
(***************************************************************************)

\* Results collected as the tasks complete (asyncio.as_completed).
gather_as_completed(run_list, completion_order) ==
    [i \in 1..Len(run_list) |-> run_list[completion_order[i]].state]

\* asyncio.gather returns the results in the order of the tasks it was given,
\* whatever the order in which they completed.
gather_results(run_list, completion_order) ==
    [i \in 1..Len(run_list) |-> run_list[i].state]

merge_separator(editor_name) ==
    AIMessage(MERGE_SEP_PREFIX \o editor_name \o SEP_SUFFIX, SYSTEM_NAME,
              NoKwargs)

\* final_url = url if url not in merged_references else f"{editor_name}_{url}"
final_url(merged_references, url, editor_name) ==
    IF url \notin RefKeys(merged_references)
    THEN url
    ELSE editor_name \o <<"_">> \o url

RECURSIVE merge_references(_, _, _)
\* for url, content in result["references"].items(): ...
merge_references(merged_references, references, editor_name) ==
    IF references = <<>>
    THEN merged_references
    ELSE merge_references(
             RefPut(merged_references,
                    final_url(merged_references, Head(references).url,
                              editor_name),
                    Head(references).content),
             Tail(references), editor_name)

RECURSIVE merge_results(_, _, _, _)
\* for i, result in enumerate(results): ...
merge_results(merged_messages, merged_references, editors, results) ==
    IF results = <<>>
    THEN [messages |-> merged_messages, references |-> merged_references]
    ELSE merge_results(
             merged_messages
                 \o <<merge_separator(Head(editors).name)>>
                 \o Head(results).messages,
             merge_references(merged_references, Head(results).references,
                              Head(editors).name),
             Tail(editors), Tail(results))

RECURSIVE dict_update(_, _)
\* {**a, **b}
dict_update(a, b) ==
    IF b = <<>>
    THEN a
    ELSE dict_update(RefPut(a, Head(b).url, Head(b).content), Tail(b))

\* conduct_interviews, serial branch: the State built from the graph's result.
\* The State returned with the registry of a single task.
parallel_result_scoped(state, merged) ==
    [messages |-> merged.messages, outline |-> state.outline,
     related_topics |-> state.related_topics,
     perspectives |-> [state.perspectives EXCEPT !.editors = <<Head(@)>>],
     article |-> state.article, references |-> merged.references,
     topic |-> state.topic]

\* The State the parallel conductor returns.
parallel_result(state, merged) ==
    [messages |-> merged.messages, outline |-> state.outline,
     related_topics |-> state.related_topics,
     perspectives |-> state.perspectives, article |-> state.article,
     references |-> merged.references, topic |-> state.topic]

serial_result(state, interview_state) ==
    [messages |-> state.messages \o interview_state.messages,
     outline |-> state.outline, related_topics |-> state.related_topics,
     perspectives |-> state.perspectives, article |-> state.article,
     references |-> dict_update(state.references, interview_state.references),
     topic |-> state.topic]

(***************************************************************************)
(* Conversations by editor and their formatting for the outline            *)
(***************************************************************************)

\* f"### Interview with {editor_name} ({editor.role})\n\n"
section_header(editor_name, role) ==
    <<"#", "#", "#", " ", "I", "n", "t", "e", "r", "v", "i", "e", "w", " ",
      "w", "i", "t", "h", " ">>
        \o editor_name \o <<" ", "(">> \o role \o <<")", "\n", "\n">>

\* f"**{message.name}**: {content}"
message_line(message) ==
    <<"*", "*">> \o message.name \o <<"*", "*", ":", " ">>
        \o message.content

\* "\n\n".join(editor_conversations)
LINE_JOIN ==
    <<"\n", "\n">>

\* "\n\n---\n\n".join(formatted_parts)
PART_JOIN ==
    <<"\n", "\n", "-", "-", "-", "\n", "\n">>

\* editor.role: every editor of the model has the same role.
ROLE_TEXT ==
    <<"D", "r">>

\* str.strip() leaves nothing.
IsBlank(content) ==
    \A i \in 1..Len(content) : content[i] \in {" ", "\n", "\t"}

\* A value Python takes for true where a name is expected: neither None nor
\* the empty string.
Truthy(name) ==
    name \notin {NoName, <<>>}

\* State.all_conversations is None.
NoConversations ==
    <<>>

\* The State the two functions read: messages, perspectives and
\* all_conversations, a dict from editor name to message list.
OutlineState(messages, perspectives, all_conversations) ==
    [messages |-> messages, perspectives |-> perspectives,
     all_conversations |-> all_conversations]

ConvKeys(conversations) ==
    {conversations[i].name : i \in 1..Len(conversations)}

\* conversations[name]
ConvGet(conversations, name) ==
    conversations[CHOOSE i \in 1..Len(conversations) :
                      conversations[i].name = name].messages

\* conversations[name] = messages
ConvPut(conversations, name, messages) ==
    IF name \in ConvKeys(conversations)
    THEN [conversations EXCEPT
             ![CHOOSE i \in 1..Len(conversations) :
                   conversations[i].name = name].messages = messages]
    ELSE Append(conversations, [name |-> name, messages |-> messages])

\* message.name == "system" and "Interview with" in message.content and
\* "---" in message.content
is_separator(message) ==
    /\ message.name = SYSTEM_NAME
    /\ IsSubstring(<<"I", "n", "t", "e", "r", "v", "i", "e", "w", " ", "w",
                     "i", "t", "h">>,
                   message.content)
    /\ IsSubstring(<<"-", "-", "-">>, message.content)

\* `for editor in editors: if editor_name in message.content: ... break`:
\* the first editor of the registry whose name occurs in the content, 0 when
\* there is none.
named_editor(editors, content) ==
    LET found == {i \in 1..Len(editors) :
                     IsSubstring(editors[i].name, content)}
    IN  IF found = {} THEN 0 ELSE SetMin(found)

\* `if current_editor and current_conversation:
\*      conversations[current_editor] = current_conversation`
save_conversation(conversations, current_editor, current_conversation) ==
    IF Truthy(current_editor) /\ current_conversation # <<>>
    THEN ConvPut(conversations, current_editor, current_conversation)
    ELSE conversations

RECURSIVE extract_loop(_, _, _, _, _)
\* `for message in state.messages:` and the save after the loop.
extract_loop(messages, editors, conversations, editor, conversation) ==
    IF messages = <<>>
    THEN save_conversation(conversations, editor,
                           conversation)
    ELSE LET message == Head(messages)
         IN  IF ~IsAI(message)
             THEN extract_loop(Tail(messages), editors, conversations,
                               editor, conversation)
             ELSE IF is_separator(message)
                  THEN LET saved == save_conversation(conversations,
                                                      editor,
                                                      conversation)
                           k == named_editor(editors, message.content)
                       IN  IF k = 0
                           THEN extract_loop(Tail(messages), editors, saved,
                                             editor,
                                             conversation)
                           ELSE extract_loop(Tail(messages), editors, saved,
                                             editors[k].name, <<>>)
                  ELSE extract_loop(Tail(messages), editors, conversations,
                                    editor,
                                    IF Truthy(editor)
                                    THEN Append(conversation,
                                                message)
                                    ELSE conversation)

extract_conversations_by_editor(state) ==
    IF state.all_conversations # NoConversations
    THEN state.all_conversations
    ELSE IF state.messages = <<>> \/ state.perspectives.kind = "none"
         THEN <<>>
         ELSE IF state.perspectives.editors = <<>>
              THEN <<>>
              ELSE extract_loop(state.messages, state.perspectives.editors,
                                <<>>, NoName, <<>>)

RECURSIVE Join(_, _)
\* separator.join(parts)
Join(parts, separator) ==
    IF parts = <<>>
    THEN <<>>
    ELSE IF Len(parts) = 1
         THEN Head(parts)
         ELSE Head(parts) \o separator \o Join(Tail(parts), separator)

RECURSIVE conversation_lines(_)
\* The lines of one editor's section: a message with content that is not
\* blank gives "**name**: content".
conversation_lines(messages) ==
    IF messages = <<>>
    THEN <<>>
    ELSE LET message == Head(messages)
         IN  IF message.content # <<>> /\ ~IsBlank(message.content)
             THEN <<message_line(message)>>
                      \o conversation_lines(Tail(messages))
             ELSE conversation_lines(Tail(messages))

\* Sections in the order of the keys of the conversations dict.
section_order_by_keys(editors, conversations) ==
    [i \in 1..Len(conversations) |-> Editor(conversations[i].name)]

\* `for editor in editors:` the sections follow the registry.
section_order(editors, conversations) ==
    editors

RECURSIVE formatted_parts(_, _)
formatted_parts(editors, conversations) ==
    IF editors = <<>>
    THEN <<>>
    ELSE LET editor_name == Head(editors).name
             rest == formatted_parts(Tail(editors), conversations)
         IN  IF editor_name \in ConvKeys(conversations)
             THEN LET editor_conversations ==
                          conversation_lines(ConvGet(conversations,
                                                     editor_name))
                  IN  IF editor_conversations # <<>>
                      THEN <<section_header(editor_name, ROLE_TEXT)
                                 \o Join(editor_conversations, LINE_JOIN)>>
                               \o rest
                      ELSE rest
             ELSE rest

format_conversations_for_outline(state) ==
    IF state.perspectives.kind = "none"
    THEN <<>>
    ELSE IF state.perspectives.editors = <<>>
         THEN <<>>
         ELSE LET conversations == extract_conversations_by_editor(state)
              IN  Join(formatted_parts(
                           section_order(state.perspectives.editors,
                                         conversations),
                           conversations),
                       PART_JOIN)

(***************************************************************************)
(* Bounds and the inputs of the environment                                *)
(***************************************************************************)

\* Longest editor registry.
MaxEditors ==
    2

\* Largest max_parallel_interviews.
MaxParallel ==
    2

\* Transient failures of external calls in one session.
MaxFailures ==
    3

\* Searches that return a result in one session.
MaxHits ==
    1

\* Answers with empty content in one session.
MaxEmptyAnswers ==
    1

\* Questions produced by the plain-text fallback in one session.
MaxFallbacks ==
    1

NAME_ANN ==
    <<"A", "n", "n">>

NAME_BO ==
    <<"B", "o">>

NAME_BO_LI ==
    <<"B", "o", " ", "L", "i">>

NAME_CY ==
    <<"C", "y">>

\* Two rosters of editors: one of plain names, one with a name that
\* sanitize_name changes and a name that is part of another.
Rosters ==
    {<<Editor(NAME_ANN), Editor(NAME_BO), Editor(NAME_CY), Editor(NAME_BO)>>,
     <<Editor(NAME_ANN), Editor(NAME_BO_LI), Editor(NAME_BO),
       Editor(NAME_BO_LI)>>}

\* The registries: the first k editors of a roster.
Registries ==
    {SubSeq(r, 1, k) : r \in Rosters, k \in 0..MaxEditors}

PerspectiveInputs ==
    {NoPerspectives}
        \cup {Perspectives(r) : r \in Registries}
        \cup {PerspectivesDict(r) : r \in {<<>>, <<Editor(NAME_CY)>>}}

QUESTION_TEXT ==
    <<"W", "h", "y", "?">>

FAREWELL_TEXT ==
    <<"O", "k", ".", " ">> \o THANKS_PHRASE

ANSWER_TEXT ==
    <<"A", ".">>

URL_U ==
    <<"u">>

TOPIC_MESSAGE ==
    [type |-> "human", id |-> 1, name |-> NoName, content |-> <<"T">>,
     additional_kwargs |-> NoKwargs]

\* A pipeline state that has not been through an interview yet.
FreshBase ==
    [messages |-> <<>>, outline |-> "outline",
     related_topics |-> "related_topics", perspectives |-> NoPerspectives,
     article |-> "article", references |-> <<>>, topic |-> "topic"]

\* A pipeline state that already went through a parallel session: its
\* reference map holds a key and the same key with an editor's prefix.
PriorBase ==
    [FreshBase EXCEPT
        !.messages = <<TOPIC_MESSAGE>>,
        !.references = <<[url |-> URL_U, content |-> <<"p", "0">>],
                         [url |-> NAME_ANN \o <<"_">> \o URL_U,
                          content |-> <<"p", "1">>]>>]

NoBudget ==
    [failures |-> 0, hits |-> 0, empties |-> 0, fallbacks |-> 0]

\* The sessions explored: the pipeline state handed to the conductor, what
\* the external services do during the session (calls fail, or searches
\* return results, or the model returns empty answers, or the structured
\* question call falls back to plain text) and the modes it is run in.
\* Empty answers and fallback questions only change the log of the run they
\* occur in, which is the same graph in both modes: they are explored on
\* the serial conductor.
Sessions ==
    {[base |-> FreshBase,
      budget |-> [NoBudget EXCEPT !.failures = MaxFailures],
      parallel |-> {FALSE, TRUE}],
     [base |-> PriorBase, budget |-> [NoBudget EXCEPT !.hits = MaxHits],
      parallel |-> {FALSE, TRUE}],
     [base |-> PriorBase,
      budget |-> [NoBudget EXCEPT !.empties = MaxEmptyAnswers],
      parallel |-> {FALSE}],
     [base |-> FreshBase,
      budget |-> [NoBudget EXCEPT !.fallbacks = MaxFallbacks],
      parallel |-> {FALSE}]}

\* What the question chain can return: a structured EditorResponse, or (after
\* the structured call raised) plain text.
QuestionOutcomes ==
    {[kind |-> "structured", content |-> QUESTION_TEXT,
      wants_to_end |-> FALSE],
     [kind |-> "structured", content |-> QUESTION_TEXT,
      wants_to_end |-> TRUE],
     [kind |-> "fallback", content |-> QUESTION_TEXT, wants_to_end |-> FALSE],
     [kind |-> "fallback", content |-> FAREWELL_TEXT,
      wants_to_end |-> FALSE]}

\* The content of a search hit names the editor and the size of its map, so
\* that every stored entry can be told from every other.
search_content(state) ==
    state.editor.name \o <<":">> \o IntToStr(Len(state.references))

\* What search() can return: nothing, a dict hit, a plain string.
SearchOutcomes(state) ==
    {<<>>,
     <<[kind |-> "dict", url |-> URL_U, content |-> search_content(state)]>>,
     <<[kind |-> "str", url |-> <<>>, content |-> search_content(state)]>>}

AnswerOutcomes ==
    {ANSWER_TEXT, <<>>}

(***************************************************************************)
(* State                                                                   *)
(***************************************************************************)

VARIABLES
    call,       \* a function applied on its own: its arguments and results
    config,     \* Configuration: parallel_interviews, max_parallel_interviews
    base,       \* the State handed to conduct_interviews
    cpc,        \* where the conductor is: start, invoke, gather, done, raised
    error,      \* the exception the conductor raised ("none" while it has not)
    runs,       \* one interview_graph run per task: state, node, attempts, error
    task,       \* per run: waiting (for a permit), running, done, failed
    permits,    \* the semaphore's free permits
    output,     \* the State the conductor returned
    order,      \* the runs in the order in which they settled
    budget,     \* what the external services may still do in this session
    performed   \* the kinds of operation performed so far

vars ==
    <<call, config, base, cpc, error, runs, task, permits, output, order, budget,
      performed>>

NoOutput ==
    [returned |-> FALSE, messages |-> <<>>, outline |-> "None",
     related_topics |-> "None", perspectives |-> NoPerspectives,
     article |-> "None", references |-> <<>>, topic |-> "default"]

Returned(result) ==
    [returned |-> TRUE, messages |-> result.messages,
     outline |-> result.outline, related_topics |-> result.related_topics,
     perspectives |-> result.perspectives, article |-> result.article,
     references |-> result.references, topic |-> result.topic]

\* The dict the State given to the conductor holds as its references. The
\* other dicts are numbered by the run whose state is the only one to hold
\* them.
BaseObject ==
    0

\* A state built on the dict it was given, not on a copy of it.
copy_alias(owner, object) ==
    object

\* `base_state.references.copy() if base_state.references else {}`: a new
\* dict, held by the state of the task that made it.
dict_copy(owner, object) ==
    owner

\* A run of the interview graph: the state in its channels, the node it is
\* at, the failed attempts of that node, the exception it raised, and
\* refs_object, the dict object its state holds as references.
NewRun(state, object) ==
    [state |-> state, node |-> "initialize", attempts |-> 0, error |-> "none",
     refs_object |-> object]

\* No function is being applied on its own.
NoCall ==
    [fn |-> "none"]

Init ==
    /\ call = NoCall
    /\ config \in
           {[parallel_interviews |-> FALSE, max_parallel_interviews |-> 1]}
               \cup {[parallel_interviews |-> TRUE,
                      max_parallel_interviews |-> k] : k \in 1..MaxParallel}
    /\ \E session \in Sessions, p \in PerspectiveInputs :
           /\ base = [session.base EXCEPT !.perspectives = p]
           /\ budget = session.budget
           /\ config.parallel_interviews \in session.parallel
    /\ cpc = "start"
    /\ error = "none"
    /\ runs = <<>>
    /\ task = <<>>
    /\ permits = 0
    /\ output = NoOutput
    /\ order = <<>>
    /\ performed = {}

(***************************************************************************)
(* Steps of one run of the interview graph                                 *)
(***************************************************************************)

Running(i) ==
    /\ i \in DOMAIN runs
    /\ task[i] = "running"

\* search_for_context wrote into the dict its state holds:
\* `references = state.references or {}` is that dict when it is not empty.
written_in_place(run, returned) ==
    /\ run.node = "search_context"
    /\ run.state.references # <<>>
    /\ returned.references # run.state.references

\* The dict the state of run i holds once the node returned: initialize
\* returns `references={}` and search_for_context makes a new dict when the
\* one it holds is empty or None; every other node hands on the dict it
\* was given.
held_references(i, run, returned, node) ==
    IF node = "FAILED"
    THEN run.refs_object
    ELSE IF run.node = "initialize"
         THEN i
         ELSE IF /\ run.node = "search_context"
                 /\ run.state.references = <<>>
                 /\ returned.references # <<>>
              THEN i
              ELSE run.refs_object

RECURSIVE write_through(_, _, _, _)
\* What a write into the dict of `run` does to the first k of the runs: a
\* state that holds the same dict sees the dict as it was written.
write_through(run_list, k, run, returned) ==
    IF k = 0 \/ ~written_in_place(run, returned)
    THEN run_list
    ELSE LET rest == write_through(run_list, k - 1, run, returned)
         IN  IF rest[k].refs_object = run.refs_object
             THEN [rest EXCEPT ![k].state.references = returned.references]
             ELSE rest

\* A permit given back only by an interview that returned.
semaphore_exit_on_return(free_permits, node) ==
    IF node = "END" THEN free_permits + 1 ELSE free_permits

\* Leaving `async with semaphore`, by return or by exception.
semaphore_exit(free_permits, node) ==
    free_permits + 1

\* The run moves to `node` with `state`; a run that reached END or raised
\* leaves `async with semaphore` and its task is done.
Settle(i, state, node, err) ==
    /\ runs' = [write_through(runs, Len(runs), runs[i], state) EXCEPT
                   ![i] = [state |-> state, node |-> node, attempts |-> 0,
                           error |-> err,
                           refs_object |-> held_references(i, runs[i],
                                                           state, node)]]
    /\ IF node \in {"END", "FAILED"}
       THEN /\ task' = [task EXCEPT
                           ![i] = IF node = "END" THEN "done" ELSE "failed"]
            /\ order' = Append(order, i)
            /\ permits' = IF config.parallel_interviews
                          THEN semaphore_exit(permits, node)
                          ELSE permits
       ELSE UNCHANGED <<task, order, permits>>

\* What a node returned, written to the channels of the run: the messages go
\* through the add_messages reducer, every other field replaces the old one.
Update(i, returned) ==
    [returned EXCEPT
        !.messages = add_messages(runs[i].state.messages, returned.messages)]

\* A retry policy that retries whatever the node raises.
retry_on_everything(exception) ==
    TRUE

\* RetryPolicy(max_attempts=...) with the default retry_on: the failures of
\* the external services are retried, a ValueError is not.
retry_on(exception) ==
    exception # "ValueError"

\* A policy without a cap: the node is run again whenever the exception is
\* one the policy retries.
Raise_unbounded(i, exception, max_attempts) ==
    IF retry_on(exception)
    THEN /\ runs' = [runs EXCEPT ![i].attempts = @ + 1]
         /\ UNCHANGED <<task, order, permits>>
    ELSE Settle(i, runs[i].state, "FAILED", exception)

\* The node raised: it is run again from the same state while the policy
\* retries the exception and attempts are left, otherwise the run raises.
Raise(i, exception, max_attempts) ==
    IF retry_on(exception) /\ runs[i].attempts + 1 < max_attempts
    THEN /\ runs' = [runs EXCEPT ![i].attempts = @ + 1]
         /\ UNCHANGED <<task, order, permits>>
    ELSE Settle(i, runs[i].state, "FAILED", exception)

\* The node's external call raised: RetryPolicy runs the node again from the
\* same state until max_attempts is used up, then the run raises.
TransientFailure(i, max_attempts) ==
    /\ budget.failures > 0
    /\ budget' = [budget EXCEPT !.failures = @ - 1]
    /\ Raise(i, "transient", max_attempts)

Initialize(i) ==
    /\ Running(i)
    /\ runs[i].node = "initialize"
    /\ LET state == runs[i].state
           extracted == extract_editors_initialize(state.perspectives)
       IN  IF extracted.ok
           THEN \E initialized \in
                        {Update(i, initialize_interview(extracted.editors))} :
                    Settle(i, initialized, "ask_question", "none")
           ELSE Settle(i, state, "FAILED", "ValueError")
    /\ UNCHANGED <<call, config, base, cpc, error, output, budget, performed>>

AskQuestion(i) ==
    /\ Running(i)
    /\ runs[i].node = "ask_question"
    /\ performed' = performed \cup {"ask"}
    /\ LET state == runs[i].state
       IN  IF state.editor = NoEditor
           THEN /\ Raise(i, "ValueError", ASK_MAX_ATTEMPTS)
                /\ UNCHANGED budget
           ELSE \/ \E o \in QuestionOutcomes :
                       /\ o.kind = "structured"
                       /\ \E asked \in
                                  {Update(i, question_structured(
                                                 state, o.content,
                                                 o.wants_to_end))} :
                              Settle(i, asked, "search_context", "none")
                       /\ UNCHANGED budget
                \/ \E o \in QuestionOutcomes :
                       /\ o.kind = "fallback"
                       /\ budget.fallbacks > 0
                       /\ budget' = [budget EXCEPT !.fallbacks = @ - 1]
                       /\ \E asked \in
                                  {Update(i, question_fallback(state,
                                                               o.content))} :
                              Settle(i, asked, "search_context", "none")
                \/ TransientFailure(i, ASK_MAX_ATTEMPTS)
    /\ UNCHANGED <<call, config, base, cpc, error, output>>

SearchContext(i) ==
    /\ Running(i)
    /\ runs[i].node = "search_context"
    /\ performed' = performed \cup {"search"}
    /\ LET state == runs[i].state
       IN  IF state.editor = NoEditor
           THEN /\ Raise(i, "ValueError", SEARCH_MAX_ATTEMPTS)
                /\ UNCHANGED budget
                /\ UNCHANGED base
           ELSE \/ \E results \in SearchOutcomes(state) :
                       /\ results # <<>> =>
                              (budget.hits > 0 /\ HasLastQuestion(state))
                       /\ budget' = IF results # <<>>
                                    THEN [budget EXCEPT !.hits = @ - 1]
                                    ELSE budget
                       /\ \E found \in
                                  {Update(i, search_for_context(state,
                                                                results))} :
                              /\ Settle(i, found, "generate_answer", "none")
                              /\ base' =
                                     IF /\ written_in_place(runs[i], found)
                                        /\ runs[i].refs_object = BaseObject
                                     THEN [base EXCEPT
                                              !.references =
                                                  found.references]
                                     ELSE base
                \/ /\ HasLastQuestion(state)
                   /\ TransientFailure(i, SEARCH_MAX_ATTEMPTS)
                   /\ UNCHANGED base
    /\ UNCHANGED <<call, config, cpc, error, output>>

GenerateAnswer(i) ==
    /\ Running(i)
    /\ runs[i].node = "generate_answer"
    /\ performed' = performed \cup {"answer"}
    /\ LET state == runs[i].state
       IN  IF state.editor = NoEditor
           THEN /\ Raise(i, "ValueError", ANSWER_MAX_ATTEMPTS)
                /\ UNCHANGED budget
           ELSE \/ \E content \in AnswerOutcomes :
                       /\ content = <<>> => budget.empties > 0
                       /\ budget' = IF content = <<>>
                                    THEN [budget EXCEPT !.empties = @ - 1]
                                    ELSE budget
                       /\ \E answered \in
                                  {Update(i, generate_expert_answer(
                                                 state, content))} :
                              Settle(i, answered, AfterAnswer(answered),
                                     "none")
                \/ TransientFailure(i, ANSWER_MAX_ATTEMPTS)
    /\ UNCHANGED <<call, config, base, cpc, error, output>>

NextEditor(i) ==
    /\ Running(i)
    /\ runs[i].node = "next_editor"
    /\ \E moved \in {Update(i, next_editor(runs[i].state))} :
           Settle(i, moved, AfterNextEditor(moved), "none")
    /\ UNCHANGED <<call, config, base, cpc, error, output, budget, performed>>

(***************************************************************************)
(* The conductors                                                          *)
(***************************************************************************)

\* A selection that takes the parallel branch whenever the ceiling allows
\* more than one interview at a time.
parallel_mode_by_ceiling(configuration) ==
    configuration.max_parallel_interviews > 1

\* conduct_interviews: `if configuration.parallel_interviews:`
parallel_mode(configuration) ==
    configuration.parallel_interviews

\* conduct_interviews, serial branch: await interview_graph.ainvoke(state).
ConductSerial ==
    /\ cpc = "start"
    /\ ~parallel_mode(config)
    /\ cpc' = "invoke"
    /\ runs' = Append(runs, NewRun(GraphInput(base.messages,
                                              base.perspectives,
                                              base.references),
                                   BaseObject))
    /\ task' = Append(task, "running")
    /\ performed' = performed \cup {"serial_graph"}
    /\ UNCHANGED <<call, config, base, error, permits, output, order, budget>>

\* The graph run ended: the serial branch builds the State it returns.
SerialReturn ==
    /\ cpc = "invoke"
    /\ task[1] = "done"
    /\ cpc' = "done"
    /\ output' = Returned(serial_result(base, runs[1].state))
    /\ UNCHANGED <<call, config, base, error, runs, task, permits, order,
                   budget,
                   performed>>

\* The graph run raised: the exception leaves conduct_interviews.
SerialRaise ==
    /\ cpc = "invoke"
    /\ task[1] = "failed"
    /\ cpc' = "raised"
    /\ error' = runs[1].error
    /\ UNCHANGED <<call, config, base, runs, task, permits, output, order,
                   budget,
                   performed>>

\* The tasks parallel_conduct_interviews creates: one run per editor, each on
\* a State scoped to that editor.
\* Every task handed the whole registry instead of its own editor.
editor_runs_unscoped(state, editors) ==
    [i \in 1..Len(editors) |->
        NewRun(GraphInput(state.messages, Perspectives(editors),
                          state.references),
               dict_copy(i, BaseObject))]

editor_runs(state, editors) ==
    [i \in 1..Len(editors) |->
        NewRun(GraphInput(state.messages, Perspectives(<<editors[i]>>),
                          state.references),
               dict_copy(i, BaseObject))]

\* parallel_conduct_interviews up to `await asyncio.gather(*tasks)`: the
\* editors are extracted, the semaphore is made and the tasks are created.
ConductParallel ==
    /\ cpc = "start"
    /\ parallel_mode(config)
    /\ LET extracted == extract_editors_parallel(base.perspectives)
       IN  IF extracted.ok
           THEN /\ cpc' = "gather"
                /\ runs' = editor_runs(base, extracted.editors)
                /\ task' = [i \in 1..Len(extracted.editors) |-> "waiting"]
                /\ permits' = config.max_parallel_interviews
                /\ performed' = performed \cup {"parallel_conductor", "task"}
                /\ UNCHANGED error
           ELSE /\ cpc' = "raised"
                /\ error' = "ValueError"
                /\ performed' = performed \cup {"parallel_conductor"}
                /\ UNCHANGED <<runs, task, permits>>
    /\ UNCHANGED <<call, config, base, output, order, budget>>

\* A gate that lets every task in.
semaphore_absent(free_permits, limit) ==
    TRUE

\* Whether the semaphore lets a waiting task in.
semaphore_open(free_permits, limit) ==
    free_permits > 0

\* `async with semaphore`: asyncio.Semaphore hands its permits to the waiting
\* tasks in the order in which they started to wait.
Acquire(i) ==
    /\ i \in DOMAIN runs
    /\ task[i] = "waiting"
    /\ semaphore_open(permits, config.max_parallel_interviews)
    /\ \A j \in 1..(i - 1) : task[j] # "waiting"
    /\ permits' = permits - 1
    /\ task' = [task EXCEPT ![i] = "running"]
    /\ UNCHANGED <<call, config, base, cpc, error, runs, output, order, budget,
                   performed>>

\* A wait that returns as soon as one task has a result.
gather_first_completed(tasks) ==
    \E i \in DOMAIN tasks : tasks[i] = "done"

\* `await asyncio.gather(*tasks)` returns when every task has returned.
gather_returns(tasks) ==
    \A i \in DOMAIN tasks : tasks[i] = "done"

\* gather returned every result: the merge loop and the returned State.
GatherReturn ==
    /\ cpc = "gather"
    /\ gather_returns(task)
    /\ cpc' = "done"
    /\ output' = Returned(parallel_result(
                     base,
                     merge_results(
                         base.messages, base.references,
                         extract_editors_parallel(base.perspectives).editors,
                         gather_results(runs, order))))
    /\ UNCHANGED <<call, config, base, error, runs, task, permits, order,
                   budget,
                   performed>>

\* The first of the runs that failed, in the order in which they settled.
first_failed ==
    order[SetMin({k \in 1..Len(order) : task[order[k]] = "failed"})]

\* gather (return_exceptions left False) raises the first exception of a task
\* as soon as that task fails; the other tasks are not cancelled.
GatherRaise ==
    /\ cpc = "gather"
    /\ \E i \in DOMAIN task : task[i] = "failed"
    /\ cpc' = "raised"
    /\ error' = runs[first_failed].error
    /\ UNCHANGED <<call, config, base, runs, task, permits, output, order,
                   budget,
                   performed>>

Next ==
    \/ ConductSerial
    \/ SerialReturn
    \/ SerialRaise
    \/ ConductParallel
    \/ \E i \in 1..MaxEditors : Acquire(i)
    \/ GatherReturn
    \/ GatherRaise
    \/ \E i \in 1..MaxEditors : Initialize(i)
    \/ \E i \in 1..MaxEditors : AskQuestion(i)
    \/ \E i \in 1..MaxEditors : SearchContext(i)
    \/ \E i \in 1..MaxEditors : GenerateAnswer(i)
    \/ \E i \in 1..MaxEditors : NextEditor(i)

Spec ==
    Init /\ [][Next]_vars

(***************************************************************************)
(* swap_roles applied on its own                                           *)
(***************************************************************************)

\* Longest message log given to swap_roles.
MaxLogLen ==
    2

\* Messages of both types, named after the expert, an editor, the separator
\* author or nobody, with and without structured metadata.
SampleMessages ==
    {[type |-> t, id |-> NoId, name |-> n, content |-> QUESTION_TEXT,
      additional_kwargs |-> k] :
         t \in {"ai", "human"},
         n \in {EXPERT_NAME, NAME_ANN, SYSTEM_NAME, NoName},
         k \in {NoKwargs, EndKwargs(TRUE)}}

SampleLogs ==
    UNION {[1..k -> SampleMessages] : k \in 0..MaxLogLen}

\* The session variables of a module state in which no session runs.
NoSession ==
    /\ config = [parallel_interviews |-> FALSE, max_parallel_interviews |-> 1]
    /\ base = FreshBase
    /\ cpc = "idle"
    /\ error = "none"
    /\ runs = <<>>
    /\ task = <<>>
    /\ permits = 0
    /\ output = NoOutput
    /\ order = <<>>
    /\ budget = NoBudget
    /\ performed = {}

sessionVars ==
    <<config, base, cpc, error, runs, task, permits, output, order, budget,
      performed>>

\* call.given is the log as the caller built it, call.messages the list
\* object handed to swap_roles, call.results what the applications returned.
InitSwap ==
    /\ NoSession
    /\ \E log \in SampleLogs, n \in {EXPERT_NAME, NAME_ANN, NAME_BO} :
           call = [fn |-> "swap_roles", given |-> log, messages |-> log,
                   name |-> n, results |-> <<>>]

\* swap_roles is applied to the log, then to its own result.
ApplySwapRoles ==
    /\ call.fn = "swap_roles"
    /\ Len(call.results) < 2
    /\ call' = [call EXCEPT
                   !.results =
                       Append(@, swap_roles(IF call.results = <<>>
                                            THEN call.messages
                                            ELSE call.results[1],
                                            call.name))]
    /\ UNCHANGED sessionVars

NextSwap ==
    ApplySwapRoles

SpecSwap ==
    InitSwap /\ [][NextSwap]_vars

(***************************************************************************)
(* route_messages applied on its own                                       *)
(***************************************************************************)

\* The messages of the logs given to the router: openings and answers of
\* the expert, questions with and without the flag or the farewell phrase,
\* separators.
RouterMessages ==
    {initial_message,
     AIMessage(ANSWER_TEXT, EXPERT_NAME, NoKwargs),
     AIMessage(QUESTION_TEXT, NAME_ANN, EndKwargs(FALSE)),
     AIMessage(QUESTION_TEXT, NAME_ANN, EndKwargs(TRUE)),
     AIMessage(FAREWELL_TEXT, NAME_ANN, NoKwargs),
     AIMessage(QUESTION_TEXT, sanitize_name(NAME_BO_LI), EndKwargs(TRUE)),
     next_separator(Editor(NAME_BO_LI))}

RouterLogs ==
    UNION {[1..k -> RouterMessages] : k \in 0..MaxLogLen}

InitRouter ==
    /\ NoSession
    /\ \E log \in RouterLogs, e \in {Editor(NAME_ANN), Editor(NAME_BO_LI)} :
           call = [fn |-> "route_messages",
                   state |-> InterviewState(add_messages(<<>>, log), <<>>, e,
                                            <<Editor(NAME_ANN),
                                              Editor(NAME_BO_LI)>>,
                                            IF e = Editor(NAME_ANN)
                                            THEN 0 ELSE 1,
                                            FALSE),
                   results |-> <<>>]

ApplyRouteMessages ==
    /\ call.fn = "route_messages"
    /\ call.results = <<>>
    /\ call' = [call EXCEPT !.results = <<route_messages(call.state)>>]
    /\ UNCHANGED sessionVars

NextRouter ==
    ApplyRouteMessages

SpecRouter ==
    InitRouter /\ [][NextRouter]_vars

(***************************************************************************)
(* The nodes run on a state their caller built                             *)
(***************************************************************************)

\* Transient failures of external calls while one run is followed.
MaxNodeFailures ==
    5

\* What the external services may do while one run is followed: nothing
\* but plain successes, or every kind of outcome.
NodeBudgets ==
    {NoBudget,
     [failures |-> MaxNodeFailures, hits |-> MaxHits,
      empties |-> MaxEmptyAnswers, fallbacks |-> MaxFallbacks]}

\* The states handed to a node: no current editor and any log, with or
\* without references, or the state `initialize` leaves for one editor, or
\* that editor's state after a first round that stored a search result.
NodeStates ==
    {InterviewState(add_messages(<<>>, log), refs, NoEditor, <<>>, 0, FALSE) :
        log \in RouterLogs,
        refs \in {<<>>, <<[url |-> URL_U, content |-> ANSWER_TEXT]>>}}
        \cup {[initialize_interview(<<Editor(NAME_ANN)>>) EXCEPT
                  !.messages = add_messages(<<>>, @)]}
        \cup {LET first == initialize_interview(<<Editor(NAME_ANN)>>)
                  asked == question_structured(first, QUESTION_TEXT, FALSE)
                  found == search_for_context(
                               asked,
                               <<[kind |-> "dict", url |-> URL_U,
                                  content |-> search_content(asked)]>>)
                  answered == generate_expert_answer(found, ANSWER_TEXT)
              IN  [answered EXCEPT !.messages = add_messages(<<>>, @)]}

\* call.state and call.budget are the state and the budget the run started
\* with, call.node the node it started at.
InitNodes ==
    /\ config = [parallel_interviews |-> FALSE, max_parallel_interviews |-> 1]
    /\ base = FreshBase
    /\ cpc = "node"
    /\ error = "none"
    /\ permits = 0
    /\ output = NoOutput
    /\ order = <<>>
    /\ performed = {}
    /\ task = <<"running">>
    /\ budget \in NodeBudgets
    /\ \E state \in NodeStates,
          node \in {"ask_question", "search_context", "generate_answer"} :
           /\ runs = <<[state |-> state, node |-> node, attempts |-> 0,
                        error |-> "none", refs_object |-> 1]>>
           /\ call = [fn |-> "node", node |-> node, state |-> state,
                      budget |-> budget]

NextNodes ==
    \/ AskQuestion(1)
    \/ SearchContext(1)
    \/ GenerateAnswer(1)
    \/ NextEditor(1)

SpecNodes ==
    InitNodes /\ [][NextNodes]_vars

(***************************************************************************)
(* extract_conversations_by_editor and format_conversations_for_outline    *)
(* applied on their own                                                    *)
(***************************************************************************)

\* Most messages in one editor's conversation.
MaxConversation ==
    2

\* The names of the editors: one of them is part of another.
OutlineNames ==
    {NAME_ANN, NAME_BO, NAME_BO_LI}

\* The registries: up to MaxEditors editors, no name twice.
OutlineRegistries ==
    {r \in UNION {[1..n -> {Editor(name) : name \in OutlineNames}] :
                      n \in 0..MaxEditors} :
        \A i, j \in 1..Len(r) : r[i] = r[j] => i = j}

\* What a conversation is made of, message by message.
ConversationShapes ==
    UNION {[1..k -> {"question", "answer"}] : k \in 0..MaxConversation}

\* The conversations given to the formatting: none, a question, a question
\* and its answer.
FormatShapes ==
    {<<>>, <<"question">>, <<"question", "answer">>}

\* The messages of the editor's conversation of that shape.
editor_conversation(editor, shape) ==
    [k \in 1..Len(shape) |->
        IF shape[k] = "question"
        THEN AIMessage(QUESTION_TEXT, sanitize_name(editor.name), NoKwargs)
        ELSE AIMessage(ANSWER_TEXT, EXPERT_NAME, NoKwargs)]

RECURSIVE separated_log(_, _)
\* For each editor in turn, the separator "--- Interview with <name> ---"
\* and the editor's messages.
separated_log(editors, shapes) ==
    IF editors = <<>>
    THEN <<>>
    ELSE <<merge_separator(Head(editors).name)>>
             \o editor_conversation(Head(editors), Head(shapes))
             \o separated_log(Tail(editors), Tail(shapes))

\* The orders in which n keys can have been put into a dict.
KeyOrders(n) ==
    {p \in [1..n -> 1..n] : \A i, j \in 1..n : p[i] = p[j] => i = j}

\* all_conversations with one key per editor, put in the order p.
structured_conversations(editors, shapes, p) ==
    [k \in 1..Len(editors) |->
        [name |-> editors[p[k]].name,
         messages |-> editor_conversation(editors[p[k]], shapes[p[k]])]]

\* call.editors and call.shapes are the registry and the conversations the
\* State was built from, call.state the State given to the function,
\* call.results what it returned.
InitOutline ==
    /\ NoSession
    /\ \/ \E r \in OutlineRegistries :
          \E shapes \in [1..Len(r) -> ConversationShapes],
             kind \in {"object", "dict"} :
              call = [fn |-> "extract_conversations_by_editor",
                      editors |-> r, shapes |-> shapes,
                      order |-> [k \in 1..Len(r) |-> k],
                      state |-> OutlineState(
                                    separated_log(r, shapes),
                                    [kind |-> kind, editors |-> r],
                                    NoConversations),
                      results |-> <<>>]
       \/ \E r \in OutlineRegistries :
          \E shapes \in [1..Len(r) -> FormatShapes],
             p \in KeyOrders(Len(r)),
             kind \in {"object", "dict", "none"} :
              call = [fn |-> "format_conversations_for_outline",
                      editors |-> r, shapes |-> shapes, order |-> p,
                      state |-> OutlineState(
                                    <<>>,
                                    [kind |-> kind,
                                     editors |-> IF kind = "none"
                                                 THEN <<>> ELSE r],
                                    structured_conversations(r, shapes, p)),
                      results |-> <<>>]

ApplyExtractConversations ==
    /\ call.fn = "extract_conversations_by_editor"
    /\ call.results = <<>>
    /\ call' = [call EXCEPT
                   !.results = <<extract_conversations_by_editor(
                                     call.state)>>]
    /\ UNCHANGED sessionVars

ApplyFormatConversations ==
    /\ call.fn = "format_conversations_for_outline"
    /\ call.results = <<>>
    /\ call' = [call EXCEPT
                   !.results = <<format_conversations_for_outline(
                                     call.state)>>]
    /\ UNCHANGED sessionVars

NextOutline ==
    \/ ApplyExtractConversations
    \/ ApplyFormatConversations

SpecOutline ==
    InitOutline /\ [][NextOutline]_vars

(***************************************************************************)
(* A serial session whose external calls all return                        *)
(***************************************************************************)

\* Rounds of ask, search and answer a run is followed for beyond those of
\* the longest session that completes.
MaxExtraRounds ==
    2

\* A session that completes leaves a log of less than 6 messages per editor
\* (opening, two questions, two answers, separator). A run is followed
\* until its log has LiveLimit messages; there the step limit of the graph
\* run ends it with an exception.
LiveLimit ==
    6 * MaxEditors + MaxExtraRounds

AtLimit ==
    /\ runs # <<>>
    /\ Len(runs[1].state.messages) >= LiveLimit

\* No call fails or falls back and no search finds anything. The model that
\* answers is either sound or returns empty content throughout the session.
InitLive ==
    /\ call = NoCall
    /\ config = [parallel_interviews |-> FALSE, max_parallel_interviews |-> 1]
    /\ \E r \in Registries :
           /\ Len(r) >= 1
           /\ base = [FreshBase EXCEPT !.perspectives = Perspectives(r)]
    /\ budget \in {NoBudget, [NoBudget EXCEPT !.empties = LiveLimit]}
    /\ cpc = "start"
    /\ error = "none"
    /\ runs = <<>>
    /\ task = <<>>
    /\ permits = 0
    /\ output = NoOutput
    /\ order = <<>>
    /\ performed = {}

\* The graph run took as many steps as it may: it raises.
StepLimit ==
    /\ Running(1)
    /\ AtLimit
    /\ runs[1].node \in {"ask_question", "search_context", "generate_answer"}
    /\ Settle(1, runs[1].state, "FAILED", "GraphRecursionError")
    /\ UNCHANGED <<call, config, base, cpc, error, output, budget, performed>>

\* The editor of a live session never asks to end the interview.
LiveAsk ==
    /\ ~AtLimit
    /\ AskQuestion(1)
    /\ LET asked == runs'[1].state.messages
       IN  ~asked[Len(asked)].additional_kwargs.wants_to_end

\* A model that returns empty content does so at every call.
LiveAnswer ==
    /\ ~AtLimit
    /\ GenerateAnswer(1)
    /\ budget.empties > 0 => budget'.empties < budget.empties

NextLive ==
    \/ ConductSerial
    \/ SerialReturn
    \/ SerialRaise
    \/ Initialize(1)
    \/ LiveAsk
    \/ (~AtLimit /\ SearchContext(1))
    \/ LiveAnswer
    \/ NextEditor(1)
    \/ StepLimit

\* Every await of the session returns: a step that can be taken is taken.
SpecLive ==
    /\ InitLive
    /\ [][NextLive]_vars
    /\ WF_vars(ConductSerial)
    /\ WF_vars(SerialReturn)
    /\ WF_vars(SerialRaise)
    /\ WF_vars(Initialize(1))
    /\ WF_vars(LiveAsk)
    /\ WF_vars(~AtLimit /\ SearchContext(1))
    /\ WF_vars(LiveAnswer)
    /\ WF_vars(NextEditor(1))
    /\ WF_vars(StepLimit)

(***************************************************************************)
(* Parallel sessions in which every step that can be taken is taken        *)
(***************************************************************************)

\* Parallel sessions over a registry of at least one editor, with every
\* ceiling. The interviews are short: the editor asks to end with its first
\* question, and the only calls that may fail are those of the search.
InitGate ==
    /\ call = NoCall
    /\ \E k \in 1..MaxParallel :
           config = [parallel_interviews |-> TRUE,
                     max_parallel_interviews |-> k]
    /\ \E r \in Registries :
           /\ Len(r) >= 1
           /\ base = [FreshBase EXCEPT !.perspectives = Perspectives(r)]
    /\ budget \in {NoBudget, [NoBudget EXCEPT !.failures = MaxFailures]}
    /\ cpc = "start"
    /\ error = "none"
    /\ runs = <<>>
    /\ task = <<>>
    /\ permits = 0
    /\ output = NoOutput
    /\ order = <<>>
    /\ performed = {}

GateAsk(i) ==
    /\ AskQuestion(i)
    /\ budget' = budget
    /\ LET asked == runs'[i].state.messages
       IN  asked[Len(asked)].additional_kwargs.wants_to_end

GateAnswer(i) ==
    /\ GenerateAnswer(i)
    /\ budget' = budget

NextGate ==
    \/ ConductParallel
    \/ \E i \in 1..MaxEditors : Acquire(i)
    \/ GatherReturn
    \/ GatherRaise
    \/ \E i \in 1..MaxEditors : Initialize(i)
    \/ \E i \in 1..MaxEditors : GateAsk(i)
    \/ \E i \in 1..MaxEditors : SearchContext(i)
    \/ \E i \in 1..MaxEditors : GateAnswer(i)
    \/ \E i \in 1..MaxEditors : NextEditor(i)

\* The event loop keeps running: the conductor and every task that can take
\* a step take it, and a free permit is handed to the first task waiting.
SpecGate ==
    /\ InitGate
    /\ [][NextGate]_vars
    /\ WF_vars(ConductParallel)
    /\ WF_vars(GatherReturn)
    /\ WF_vars(GatherRaise)
    /\ \A i \in 1..MaxEditors :
           /\ WF_vars(Acquire(i))
           /\ WF_vars(Initialize(i))
           /\ WF_vars(GateAsk(i))
           /\ WF_vars(SearchContext(i))
           /\ WF_vars(GateAnswer(i))
           /\ WF_vars(NextEditor(i))

(***************************************************************************)
(* The AutoGen variant: conduct_interviews of agents/interviewer.py        *)
(***************************************************************************)

\* Largest max_turns.
MaxTurns ==
    2

\* conduct_interviews up to the creation of the tasks: one task per
\* perspective, each with the InterviewResult it will return (in `state`),
\* the turn of its loop, the question waiting for its answer and the agent
\* calls it made. A call of an agent may raise.
InitAutogen ==
    /\ call = NoCall
    /\ \E turns \in 0..MaxTurns, k \in 1..MaxParallel :
           /\ config = [max_turns |-> turns, max_parallel_interviews |-> k,
                        parallel_interviews |-> TRUE]
           /\ permits = k
    /\ \E r \in Registries :
           /\ base = [FreshBase EXCEPT !.perspectives = Perspectives(r)]
           /\ runs = [i \in 1..Len(r) |->
                         [state |-> [editor_name |-> r[i].name,
                                     interview_history |-> <<>>],
                          turn |-> 0, question |-> <<>>, calls |-> <<>>]]
           /\ task = [i \in 1..Len(r) |-> "waiting"]
    /\ budget \in {NoBudget, [NoBudget EXCEPT !.failures = 1]}
    /\ cpc = "gather"
    /\ error = "none"
    /\ output = NoOutput
    /\ order = <<>>
    /\ performed = {}

\* _run_single_interview, one await at a time: the editor agent is asked
\* for a question, the expert agent for its answer and the turn is recorded,
\* until the loop has run max_turns times and the result is returned.
RunSingleInterview(i) ==
    /\ Running(i)
    /\ LET run == runs[i]
           asking == run.question = <<>>
       IN  \/ /\ run.turn < config.max_turns
              /\ asking
              /\ runs' = [runs EXCEPT
                             ![i].question =
                                 <<"Q">> \o IntToStr(run.turn + 1),
                             ![i].calls = Append(@, "question")]
              /\ UNCHANGED <<task, permits, order, budget>>
           \/ /\ run.turn < config.max_turns
              /\ ~asking
              /\ runs' = [runs EXCEPT
                             ![i].state.interview_history =
                                 Append(@, [question |-> run.question,
                                            answer |-> ANSWER_TEXT,
                                            references |-> <<>>]),
                             ![i].turn = @ + 1,
                             ![i].question = <<>>,
                             ![i].calls = Append(@, "answer")]
              /\ UNCHANGED <<task, permits, order, budget>>
           \/ /\ run.turn < config.max_turns
              /\ budget.failures > 0
              /\ budget' = [budget EXCEPT !.failures = @ - 1]
              /\ task' = [task EXCEPT ![i] = "failed"]
              /\ permits' = semaphore_exit(permits, "FAILED")
              /\ order' = Append(order, i)
              /\ UNCHANGED runs
           \/ /\ run.turn >= config.max_turns
              /\ task' = [task EXCEPT ![i] = "done"]
              /\ permits' = semaphore_exit(permits, "END")
              /\ order' = Append(order, i)
              /\ UNCHANGED <<runs, budget>>
    /\ UNCHANGED <<call, config, base, cpc, error, output, performed>>

\* await asyncio.gather(*tasks): the list of the results, or the exception
\* of the first task that raised.
AutogenGather ==
    /\ cpc = "gather"
    /\ \/ /\ gather_returns(task)
          /\ cpc' = "done"
          /\ output' = [returned |-> TRUE,
                        results |-> gather_results(runs, order)]
          /\ UNCHANGED error
       \/ /\ \E i \in DOMAIN task : task[i] = "failed"
          /\ cpc' = "raised"
          /\ error' = "Exception"
          /\ UNCHANGED output
    /\ UNCHANGED <<call, config, base, runs, task, permits, order, budget,
                   performed>>

SpecAutogen ==
    /\ InitAutogen
    /\ [][\/ \E i \in 1..MaxEditors : Acquire(i)
          \/ \E i \in 1..MaxEditors : RunSingleInterview(i)
          \/ AutogenGather]_vars

(***************************************************************************)
(* Properties                                                              *)
(***************************************************************************)

ParallelSession ==
    config.parallel_interviews

SerialSession ==
    /\ ~config.parallel_interviews
    /\ cpc # "idle"

\* The registry of the session, when the conductor accepted it.
Registry ==
    base.perspectives.editors

RunningTasks ==
    {i \in DOMAIN task : task[i] = "running"}

RECURSIVE SegmentStart(_)
\* Where editor i's separator is expected in the merged log: after the base
\* messages and, for each earlier editor, a separator and that editor's log.
SegmentStart(i) ==
    IF i = 1
    THEN Len(base.messages) + 1
    ELSE SegmentStart(i - 1) + 1 + Len(runs[i - 1].state.messages)

\* A system separator whose text names the editor.
SeparatorNaming(message, editor) ==
    /\ IsAI(message)
    /\ message.name = SYSTEM_NAME
    /\ IsSubstring(editor.name, message.content)

\* C1: in parallel mode the merged log is the base messages followed, in
\* registry order, by a separator naming editor i and editor i's own log,
\* whatever the order in which the interviews completed.
C1_MergedLogInRegistryOrder ==
    (ParallelSession /\ cpc = "done") =>
        LET n == Len(Registry)
            merged == output.messages
        IN  /\ Len(runs) = n
            /\ Len(merged) = SegmentStart(n + 1) - 1
            /\ SubSeq(merged, 1, Len(base.messages)) = base.messages
            /\ \A i \in 1..n :
                   LET at == SegmentStart(i)
                       own == runs[i].state.messages
                   IN  /\ SeparatorNaming(merged[at], Registry[i])
                       /\ SubSeq(merged, at + 1, at + Len(own)) = own

\* A parallel session returned although the second editor's interview
\* completed before the first editor's.
C1_Witness ==
    /\ ParallelSession
    /\ cpc = "done"
    /\ output.returned
    /\ Len(order) = 2
    /\ order[1] = 2

\* C2: in a parallel session all N tasks exist from the start, and at most
\* max_parallel_interviews of them are inside the permit-gated region.
C2_RunningWithinCeiling ==
    (ParallelSession /\ cpc \in {"gather", "done", "raised"}
        /\ extract_editors_parallel(base.perspectives).ok) =>
        /\ Len(task) = Len(Registry)
        /\ Cardinality(RunningTasks) <= config.max_parallel_interviews
        /\ permits >= 0

\* The gated region is full and a task that was created is kept waiting.
C2_Witness ==
    /\ ParallelSession
    /\ cpc = "gather"
    /\ Cardinality(RunningTasks) = config.max_parallel_interviews
    /\ \E i \in DOMAIN task : task[i] = "waiting"

\* The conversation states on which the router decides: a run past
\* `initialize` whose log is not empty and ends with an expert answer.
EndsWithExpertAnswer(state) ==
    /\ state.messages # <<>>
    /\ state.editor # NoEditor
    /\ LET last_message == state.messages[Len(state.messages)]
       IN  IsAI(last_message) /\ last_message.name = EXPERT_NAME

\* The positions of the current editor's own messages in its segment.
EditorTurns(state) ==
    LET segment == current_segment(state)
    IN  {i \in 1..Len(segment) :
            segment[i].name = sanitize_name(state.editor.name)}

\* An end-intent condition holds for the editor's most recent message: the
\* structured flag is set, or its text ends with the fixed phrase.
EndIntent(state) ==
    /\ EditorTurns(state) # {}
    /\ LET segment == current_segment(state)
           recent == segment[CHOOSE i \in EditorTurns(state) :
                                 \A j \in EditorTurns(state) : j <= i]
       IN  \/ /\ recent.additional_kwargs.set
              /\ recent.additional_kwargs.wants_to_end
           \/ EndsWith(recent.content, THANKS_PHRASE)

\* C3: on a log that ends with an expert answer the router returns
\* NEXT_EDITOR exactly when the segment holds at least max_turns expert
\* messages or an end-intent condition holds for the editor's most recent
\* message, and ASK_QUESTION in every other case.
C3_RouterIff ==
    \A i \in DOMAIN runs :
        LET state == runs[i].state
        IN  EndsWithExpertAnswer(state) =>
                IF \/ expert_responses(current_segment(state)) >= MAX_TURNS
                   \/ EndIntent(state)
                THEN route_messages(state) = "next_editor"
                ELSE route_messages(state) = "ask_question"

RECURSIVE SumOfSizes(_)
\* The sizes of the reference maps of the first n editors, added up.
SumOfSizes(n) ==
    IF n = 0 THEN 0 ELSE SumOfSizes(n - 1) + Len(runs[n].state.references)

\* The entry is in the map under the key.
HasEntry(refs, url, content) ==
    \E k \in 1..Len(refs) : refs[k].url = url /\ refs[k].content = content

\* C4: the merged reference map holds every entry of every editor, under its
\* own key or under the key prefixed with the editor's name; no entry that
\* was in the map before is overwritten; the size of the merged map is the
\* sum of the sizes of the inputs.
C4_NoReferenceLost ==
    (ParallelSession /\ cpc = "done") =>
        /\ \A k \in 1..Len(base.references) :
               HasEntry(output.references, base.references[k].url,
                        base.references[k].content)
        /\ \A i \in DOMAIN runs :
               \A k \in 1..Len(runs[i].state.references) :
                   LET entry == runs[i].state.references[k]
                   IN  \/ HasEntry(output.references, entry.url,
                                   entry.content)
                       \/ HasEntry(output.references,
                                   Registry[i].name \o <<"_">> \o entry.url,
                                   entry.content)
        /\ Len(output.references)
               = Len(base.references) + SumOfSizes(Len(runs))

\* C5: swap_roles applied to its own result, with the same target identity,
\* returns that result.
C5_SwapRolesIdempotent ==
    (call.fn = "swap_roles" /\ Len(call.results) = 2) =>
        call.results[2] = call.results[1]

\* swap_roles was applied twice to a log in which it had something to
\* relabel.
C5_Witness ==
    /\ call.fn = "swap_roles"
    /\ Len(call.results) = 2
    /\ call.results[1] # call.given

\* C6: swap_roles returns a log of the same length and order in which every
\* message of another speaker is a human turn and every message of the
\* target keeps its label, content and speaker names are preserved, and the
\* log it was given is left as it was.
C6_SwapRolesRelabels ==
    (call.fn = "swap_roles" /\ Len(call.results) >= 1) =>
        LET given == call.given
            swapped == call.results[1]
        IN  /\ Len(swapped) = Len(given)
            /\ \A i \in 1..Len(given) :
                   /\ swapped[i].content = given[i].content
                   /\ swapped[i].name = given[i].name
                   /\ given[i].name # call.name => IsHuman(swapped[i])
                   /\ given[i].name = call.name
                          => swapped[i].type = given[i].type
            /\ call.messages = given

\* swap_roles returned for a log that holds a message of the target and an
\* AI message of another speaker.
C6_Witness ==
    /\ call.fn = "swap_roles"
    /\ Len(call.results) >= 1
    /\ \E i, j \in 1..Len(call.given) :
           /\ call.given[i].name = call.name
           /\ IsAI(call.given[i])
           /\ call.given[j].name # call.name
           /\ IsAI(call.given[j])

\* No message of the log carries the structured end-intent flag or ends with
\* the fixed phrase.
NoEndIntent(messages) ==
    \A k \in 1..Len(messages) :
        /\ ~(messages[k].additional_kwargs.set
               /\ messages[k].additional_kwargs.wants_to_end)
        /\ ~EndsWith(messages[k].content, THANKS_PHRASE)

\* The segment of the editor being interviewed: what follows the most recent
\* separator of the log, or the whole log when it has none.
LastSegment(messages) ==
    LET separators == {k \in 1..Len(messages) :
                          /\ IsAI(messages[k])
                          /\ messages[k].name = SYSTEM_NAME}
    IN  IF separators = {}
        THEN messages
        ELSE SubSeq(messages,
                    (CHOOSE k \in separators :
                         \A j \in separators : j <= k) + 1,
                    Len(messages))

\* C7: in a serial session without end-intent, the segment of every editor,
\* first or later and whatever its name, holds exactly max_turns expert
\* messages when its NEXT_EDITOR transition fires.
C7_ExactlyMaxTurnsPerEditor ==
    (/\ SerialSession
     /\ runs # <<>>
     /\ runs[1].node = "next_editor"
     /\ NoEndIntent(runs[1].state.messages)) =>
        expert_responses(LastSegment(runs[1].state.messages)) = MAX_TURNS

\* C8: in a serial session is_complete is true only once NEXT_EDITOR was
\* taken after the segment of the last editor of the registry, and END is
\* reached only with is_complete true or on an empty log.
C8_CompleteOnlyAfterLastEditor ==
    (SerialSession /\ runs # <<>>) =>
        LET state == runs[1].state
        IN  /\ state.is_complete =>
                   /\ runs[1].node = "END"
                   /\ state.editors = Registry
                   /\ state.current_editor_index = Len(Registry)
                   /\ state.editor = Registry[Len(Registry)]
                   /\ route_messages(state) = "next_editor"
            /\ runs[1].node = "END" =>
                   state.is_complete \/ state.messages = <<>>

\* A serial session over two editors reached END.
C8_Witness ==
    /\ SerialSession
    /\ runs # <<>>
    /\ Len(Registry) = 2
    /\ runs[1].node = "END"
    /\ runs[1].state.is_complete

\* The session was started without perspectives or with an empty registry.
NoEditorsGiven ==
    \/ base.perspectives.kind = "none"
    \/ base.perspectives.editors = <<>>

\* C9: a session started without perspectives or with an empty registry
\* fails with a ValueError before any ask, search or answer and before any
\* per-editor task is created.
C9_NoEditorsFailsFirst ==
    (NoEditorsGiven /\ cpc # "idle") =>
        /\ performed \cap {"ask", "search", "answer", "task"} = {}
        /\ cpc \in {"start", "invoke", "raised"}
        /\ (cpc = "raised" => error = "ValueError")
        /\ \A i \in DOMAIN runs :
               /\ runs[i].node \in {"initialize", "FAILED"}
               /\ (runs[i].node = "FAILED"
                      => runs[i].error = "ValueError")

\* A parallel session without editors raised.
C9_Witness ==
    /\ NoEditorsGiven
    /\ ParallelSession
    /\ cpc = "raised"
    /\ error = "ValueError"

\* The questions of the log: the messages of the editor being interviewed.
Questions(state) ==
    {k \in 1..Len(state.messages) :
        state.messages[k].name = sanitize_name(state.editor.name)}

\* The expert's answers of the log: the expert messages after position k.
AnswersAfter(state, k) ==
    {j \in (k + 1)..Len(state.messages) :
        /\ IsAI(state.messages[j])
        /\ state.messages[j].name = EXPERT_NAME}

\* C10: with a single editor whose first question carries the end-intent
\* flag, the router returns NEXT_EDITOR right after the expert's one answer
\* to that question and the session ends with exactly that one answer.
C10_EndsAfterOneAnswer ==
    (SerialSession /\ runs # <<>> /\ Len(Registry) = 1) =>
        LET state == runs[1].state
            asked == Questions(state)
            first == CHOOSE k \in asked : \A j \in asked : k <= j
        IN  (/\ runs[1].node \notin {"initialize", "FAILED"}
             /\ asked # {}
             /\ state.messages[first].additional_kwargs.set
             /\ state.messages[first].additional_kwargs.wants_to_end) =>
                /\ (AnswersAfter(state, first) # {}
                       => runs[1].node \in {"next_editor", "END"})
                /\ (runs[1].node = "END"
                       => Cardinality(AnswersAfter(state, first)) = 1)

\* The positions of the system separators of a log.
Separators(messages) ==
    {k \in 1..Len(messages) :
        IsAI(messages[k]) /\ messages[k].name = SYSTEM_NAME}

\* The position of the k-th separator of a log.
NthSeparator(messages, k) ==
    CHOOSE x \in Separators(messages) :
        Cardinality({y \in Separators(messages) : y < x}) = k - 1

\* The k-th conversation of a shared log: what lies between the separator
\* before it (or the start of the log) and the next separator (or the end).
Conversation(messages, k) ==
    LET from == IF k = 1 THEN 1 ELSE NthSeparator(messages, k - 1)
        to == IF k > Cardinality(Separators(messages))
              THEN Len(messages)
              ELSE NthSeparator(messages, k) - 1
    IN  SubSeq(messages, from, to)

\* The editor put a question in the conversation.
AskedIn(conversation, editor) ==
    \E j \in 1..Len(conversation) :
        /\ IsAI(conversation[j])
        /\ conversation[j].name = sanitize_name(editor.name)

\* C11: at the end of a successful session every editor of the registry has
\* exactly one conversation: in serial mode the shared log holds one
\* conversation per editor, in registry order, and the index went through
\* the whole registry; in parallel mode there is one completed run per
\* editor, on that editor alone.
C11_EveryEditorOnce ==
    (cpc = "done") =>
        LET n == Len(Registry)
        IN  IF ParallelSession
            THEN /\ Len(runs) = n
                 /\ \A i \in 1..n :
                        /\ runs[i].node = "END"
                        /\ runs[i].state.editors = <<Registry[i]>>
                        /\ runs[i].state.editor = Registry[i]
                        /\ Cardinality(Separators(runs[i].state.messages)) = 0
                        /\ AskedIn(runs[i].state.messages, Registry[i])
            ELSE LET log == runs[1].state.messages
                 IN  /\ Len(runs) = 1
                     /\ n >= 1
                     /\ runs[1].state.editors = Registry
                     /\ runs[1].state.current_editor_index = n
                     /\ Cardinality(Separators(log)) = n - 1
                     /\ \A k \in 1..n :
                            /\ AskedIn(Conversation(log, k), Registry[k])
                            /\ k > 1 =>
                                   SeparatorNaming(
                                       log[NthSeparator(log, k - 1)],
                                       Registry[k])

\* A serial session over two editors returned.
C11_Witness ==
    /\ SerialSession
    /\ cpc = "done"
    /\ output.returned
    /\ Len(Registry) = 2

\* C12: in parallel mode the conductor returns or raises only when every
\* task has run to completion, successfully or not: a failed interview
\* never ends the conductor while another task is waiting or running.
C12_AllTasksAwaited ==
    (ParallelSession /\ cpc \in {"done", "raised"}) =>
        \A i \in DOMAIN task : task[i] \in {"done", "failed"}

\* C13: the mode flag alone selects the strategy. With the flag set the
\* parallel conductor is called, the serial graph invocation of
\* conduct_interviews is not, and what the parallel conductor returns is
\* what conduct_interviews returns; with the flag clear the interview graph
\* is invoked once and the parallel conductor never.
C13_ModeSelectsStrategy ==
    (cpc \notin {"idle", "start"}) =>
        IF config.parallel_interviews
        THEN /\ "parallel_conductor" \in performed
             /\ "serial_graph" \notin performed
             /\ cpc \in {"gather", "done", "raised"}
             /\ cpc = "done" =>
                    output = Returned(parallel_result(
                                 base,
                                 merge_results(
                                     base.messages, base.references, Registry,
                                     [i \in DOMAIN runs |-> runs[i].state])))
        ELSE /\ "serial_graph" \in performed
             /\ performed \cap {"parallel_conductor", "task"} = {}
             /\ cpc \in {"invoke", "done", "raised"}
             /\ Len(runs) = 1
             /\ permits = 0

\* A session with the flag set and a ceiling of one returned through the
\* parallel conductor.
C13_Witness ==
    /\ config.parallel_interviews
    /\ config.max_parallel_interviews = 1
    /\ cpc = "done"
    /\ "parallel_conductor" \in performed

\* The log as the responder sees it: swap_roles with the expert as target
\* leaves the expert's messages as AI turns (the responder's side) and makes
\* every other message a human turn (the questioner's side).
Normalized(messages) ==
    swap_roles(messages, EXPERT_NAME)

\* C14: in every state of a conversation the normalized log alternates
\* between the questioner's side and the responder's side, across editor
\* switches and after an answer without content.
C14_RolesAlternate ==
    \A i \in DOMAIN runs :
        LET log == Normalized(runs[i].state.messages)
        IN  \A j \in 1..(Len(log) - 1) : log[j].type # log[j + 1].type

\* The first sequence is a prefix of the second.
IsPrefix(before, after) ==
    /\ Len(before) <= Len(after)
    /\ SubSeq(after, 1, Len(before)) = before

\* C15: the log of a conversation is append-only: every step of a run past
\* `initialize` (ask, search, answer, next_editor, a failed attempt) leaves
\* a log of which the log before the step is a prefix.
C15_LogAppendOnly ==
    [][\A i \in DOMAIN runs :
           (i \in DOMAIN runs' /\ runs[i].node # "initialize") =>
               IsPrefix(runs[i].state.messages, runs'[i].state.messages)]_vars

\* A conversation went through ask, search, answer and next_editor: its log
\* holds a separator and a question after it.
C15_Witness ==
    \E i \in DOMAIN runs :
        LET log == runs[i].state.messages
        IN  /\ Separators(log) # {}
            /\ log[Len(log)].name \notin {EXPERT_NAME, SYSTEM_NAME, NoName}

\* C16: on an empty log route_messages returns ASK_QUESTION, not END and
\* not NEXT_EDITOR.
C16_EmptyLogAsks ==
    (/\ call.fn = "route_messages"
     /\ call.results # <<>>
     /\ call.state.messages = <<>>) =>
        call.results[1] = "ask_question"

\* The log ends with the expert's answer to a message of the current editor
\* that ends with the fixed phrase.
AnsweredFarewell(state) ==
    /\ EndsWithExpertAnswer(state)
    /\ Len(state.messages) >= 2
    /\ LET asked == state.messages[Len(state.messages) - 1]
       IN  /\ asked.name = sanitize_name(state.editor.name)
           /\ EndsWith(asked.content, THANKS_PHRASE)

\* C17: after the expert's answer to a message of the editor that ends
\* with "Thank you so much for your help!" the router returns NEXT_EDITOR,
\* also when the message carries no structured flag.
C17_FarewellPhraseEnds ==
    \A i \in DOMAIN runs :
        AnsweredFarewell(runs[i].state) =>
            /\ route_messages(runs[i].state) = "next_editor"
            /\ runs[i].node \in {"next_editor", "END"}

\* The segment of the current editor as the specification defines it:
\* from the most recent separator that names the editor, or from the start
\* of the log when no separator names it.
NamedSegment(state) ==
    LET naming == {k \in Separators(state.messages) :
                      SeparatorNaming(state.messages[k], state.editor)}
    IN  IF naming = {}
        THEN state.messages
        ELSE SubSeq(state.messages,
                    CHOOSE k \in naming : \A j \in naming : j <= k,
                    Len(state.messages))

\* C18: the router counts the expert's responses within the segment of the
\* current editor only, whatever the editor's name: the messages it looks
\* at are those from the most recent separator naming the editor on, and
\* no message of an earlier editor's segment is counted.
C18_CountWithinOwnSegment ==
    \A i \in DOMAIN runs :
        LET state == runs[i].state
        IN  (state.editor # NoEditor /\ state.messages # <<>>) =>
                /\ current_segment(state) = NamedSegment(state)
                /\ expert_responses(current_segment(state))
                       = expert_responses(NamedSegment(state))

\* What the NEXT_EDITOR transition has to make of the state of a run.
NextEditorStep(before, after, node) ==
    LET new_index == before.current_editor_index + 1
        n == Len(before.messages)
    IN  /\ after.current_editor_index = new_index
        /\ after.editors = before.editors
        /\ after.references = before.references
        /\ IF new_index >= Len(before.editors)
           THEN /\ after.is_complete
                /\ after.messages = before.messages
                /\ node = "END"
           ELSE /\ ~after.is_complete
                /\ Len(after.messages) = n + 2
                /\ SubSeq(after.messages, 1, n) = before.messages
                /\ SeparatorNaming(after.messages[n + 1],
                                   before.editors[new_index + 1])
                /\ IsAI(after.messages[n + 2])
                /\ after.messages[n + 2].name = EXPERT_NAME
                /\ after.messages[n + 2].content = OPENING_TEXT
                /\ after.editor = before.editors[new_index + 1]
                /\ node = "ask_question"

\* C19: the NEXT_EDITOR transition advances the index by exactly one; out
\* of range it sets is_complete, appends nothing and the run goes to END;
\* in range it appends a separator naming the new editor and one opening
\* message of the expert, makes that editor the current one and the run
\* goes to ASK_QUESTION.
C19_NextEditorTransition ==
    [][\A i \in DOMAIN runs :
           (/\ i \in DOMAIN runs'
            /\ runs[i].node = "next_editor"
            /\ runs'[i] # runs[i]) =>
               NextEditorStep(runs[i].state, runs'[i].state, runs'[i].node)]_vars

\* The transition moved a run to the second editor of its registry.
C19_Witness ==
    \E i \in DOMAIN runs :
        /\ runs[i].state.current_editor_index = 1
        /\ Len(runs[i].state.editors) = 2
        /\ runs[i].state.editor = runs[i].state.editors[2]
        /\ runs[i].node = "ask_question"

\* C20: ask, search and answer run on a state without a current editor
\* fail with a ValueError: no external call is made, the log and the
\* reference map stay as they were, and the node is not run again by its
\* retry policy.
C20_NullEditorFatal ==
    (call.fn = "node" /\ call.state.editor = NoEditor) =>
        /\ runs[1].state = call.state
        /\ budget = call.budget
        /\ runs[1].attempts = 0
        /\ runs[1].node \in {call.node, "FAILED"}
        /\ (runs[1].node = "FAILED" =>
                /\ runs[1].error = "ValueError"
                /\ task[1] = "failed")

\* The answer node raised on a state without a current editor while the
\* external services were failing.
C20_Witness ==
    /\ call.fn = "node"
    /\ call.state.editor = NoEditor
    /\ call.node = "generate_answer"
    /\ call.budget.failures > 0
    /\ runs[1].node = "FAILED"

\* RetryPolicy(max_attempts=...) of the node.
max_attempts(node) ==
    CASE node = "ask_question" -> ASK_MAX_ATTEMPTS
      [] node = "search_context" -> SEARCH_MAX_ATTEMPTS
      [] node = "generate_answer" -> ANSWER_MAX_ATTEMPTS
      [] OTHER -> 1

\* The step is a failed external call of the run's node.
FailedAttempt ==
    /\ runs[1].node \in {"ask_question", "search_context", "generate_answer"}
    /\ runs[1].state.editor # NoEditor
    /\ budget'.failures < budget.failures

\* C21: a transient failure of the external call in ask, search or answer
\* makes the same node run again while fewer attempts than its cap (5 for
\* ask and answer, 3 for search) were made; the attempt that uses up the cap
\* fails the run with that failure, and a failed run takes no further step.
C21_RetriedUpToCap ==
    [][/\ FailedAttempt =>
            IF runs[1].attempts + 1 < max_attempts(runs[1].node)
            THEN /\ runs'[1].node = runs[1].node
                 /\ runs'[1].attempts = runs[1].attempts + 1
                 /\ task'[1] = "running"
            ELSE /\ runs'[1].node = "FAILED"
                 /\ runs'[1].error = "transient"
                 /\ task'[1] = "failed"
       /\ runs[1].attempts < max_attempts(runs[1].node)
       /\ runs[1].node = "FAILED" => runs' = runs]_vars

\* The question node failed five times in a row and the run failed.
C21_Witness ==
    /\ call.fn = "node"
    /\ call.node = "ask_question"
    /\ call.state.editor # NoEditor
    /\ runs[1].node = "FAILED"
    /\ runs[1].error = "transient"
    /\ runs[1].state = call.state
    /\ call.budget.failures - budget.failures = ASK_MAX_ATTEMPTS

\* The step is an attempt of ask or answer that returned after at least one
\* attempt of the same node failed.
SucceededAfterFailures ==
    /\ runs[1].node \in {"ask_question", "generate_answer"}
    /\ runs[1].state.editor # NoEditor
    /\ runs[1].attempts > 0
    /\ runs'[1].node \notin {runs[1].node, "FAILED"}

\* C22: a failed attempt of ask, search or answer leaves the state of the
\* conversation (log, reference map, editor, index) as it was, and an ask or
\* answer that returns after failed attempts appends exactly one message to
\* the log it started from.
C22_RetryFromSameState ==
    [][/\ FailedAttempt => runs'[1].state = runs[1].state
       /\ SucceededAfterFailures =>
            /\ IsPrefix(runs[1].state.messages, runs'[1].state.messages)
            /\ Len(runs'[1].state.messages)
                   = Len(runs[1].state.messages) + 1]_vars

\* The step is an execution of answer, on a state with an editor, whose
\* model call returned.
AnswerReturned ==
    /\ runs[1].node = "generate_answer"
    /\ runs[1].state.editor # NoEditor
    /\ runs' # runs
    /\ budget'.failures = budget.failures

\* C23: every execution of answer on a state with an editor whose model call
\* returned appends exactly one message, written by the expert, to the log,
\* whatever text the model returned.
C23_AnswerAppendsOne ==
    [][AnswerReturned =>
           LET before == runs[1].state.messages
               after == runs'[1].state.messages
           IN  /\ Len(after) = Len(before) + 1
               /\ SubSeq(after, 1, Len(before)) = before
               /\ IsAI(after[Len(after)])
               /\ after[Len(after)].name = EXPERT_NAME]_vars

\* C24: in a parallel session the per-editor states share no data: no
\* state holds the reference dict of the conductor's State or of another
\* task's state, and a step that changes one task's state (a message
\* appended, a reference inserted) changes neither the State given to the
\* conductor nor any other task's state.
C24_NoSharedData ==
    [][ParallelSession =>
           /\ \A i \in DOMAIN runs :
                  /\ runs[i].refs_object # BaseObject
                  /\ \A j \in DOMAIN runs \ {i} :
                         runs[j].refs_object # runs[i].refs_object
           /\ base' = base
           /\ \A i \in DOMAIN runs :
                  (i \in DOMAIN runs' /\ runs'[i].state # runs[i].state) =>
                      \A j \in DOMAIN runs \ {i} :
                          runs'[j].state = runs[j].state]_vars

\* Two tasks run side by side on a State that came with references: the
\* first has put a search result into its own map and has a question and
\* an answer in its log, the second still has the map and the log that
\* `initialize` gave it.
C24_Witness ==
    /\ ParallelSession
    /\ Len(runs) = 2
    /\ base.references # <<>>
    /\ task[2] = "running"
    /\ runs[1].state.references # <<>>
    /\ Len(runs[1].state.messages) > Len(runs[2].state.messages)
    /\ runs[2].node = "ask_question"
    /\ runs[2].state.references = <<>>

\* C25: in a parallel session the merge runs once, and only when every
\* per-editor task has settled: the merged log and reference map are written
\* in one step, taken from `gather` with no task waiting or running, and are
\* never written again.
C25_MergeOnceAfterBarrier ==
    [][ParallelSession =>
           /\ output' # output =>
                  /\ output = NoOutput
                  /\ cpc = "gather"
                  /\ cpc' = "done"
                  /\ \A i \in DOMAIN task : task[i] = "done"
           /\ cpc = "done" => output' = output]_vars

\* The merged State of two interviews was returned.
C25_Witness ==
    /\ ParallelSession
    /\ Len(runs) = 2
    /\ cpc = "done"
    /\ output.returned
    /\ Len(output.messages) > Len(runs[1].state.messages)
                                  + Len(runs[2].state.messages)

\* The conversation the call's input gave to the editor called `name`.
GivenConversation(name) ==
    LET i == CHOOSE k \in 1..Len(call.editors) : call.editors[k].name = name
    IN  editor_conversation(call.editors[i], call.shapes[i])

\* C26: extract_conversations_by_editor, applied to a log made of, for each
\* editor in turn, the separator "--- Interview with <name> ---" and the
\* editor's messages, returns a map that gives every editor with a
\* conversation exactly that conversation and gives no editor anything else.
C26_ExtractByEditor ==
    (call.fn = "extract_conversations_by_editor" /\ call.results # <<>>) =>
        LET conversations == call.results[1]
        IN  /\ \A i \in 1..Len(call.editors) :
                   GivenConversation(call.editors[i].name) # <<>> =>
                       /\ call.editors[i].name \in ConvKeys(conversations)
                       /\ ConvGet(conversations, call.editors[i].name)
                              = GivenConversation(call.editors[i].name)
            /\ \A k \in 1..Len(conversations) :
                   /\ \E i \in 1..Len(call.editors) :
                          call.editors[i].name = conversations[k].name
                   /\ conversations[k].messages
                          = GivenConversation(conversations[k].name)

\* Where the section header of the editor starts in the text (0: nowhere).
SectionStart(text, editor) ==
    LET header == section_header(editor.name, ROLE_TEXT)
        starts == {i \in 1..Len(text) :
                      /\ i + Len(header) - 1 <= Len(text)
                      /\ SubSeq(text, i, i + Len(header) - 1) = header}
    IN  IF starts = {} THEN 0 ELSE SetMin(starts)

\* C27: format_conversations_for_outline returns the empty string when the
\* state has no perspectives or no editors; otherwise the text has one
\* section for every editor with a conversation and none for the others, the
\* sections follow the order of perspectives.editors, and the text is the
\* one returned when the keys of all_conversations are in registry order.
C27_SectionsInRegistryOrder ==
    (call.fn = "format_conversations_for_outline" /\ call.results # <<>>) =>
        LET text == call.results[1]
            editors == call.editors
            n == Len(editors)
        IN  IF call.state.perspectives.kind = "none" \/ n = 0
            THEN text = <<>>
            ELSE /\ \A i \in 1..n :
                        (call.shapes[i] = <<>>)
                            <=> (SectionStart(text, editors[i]) = 0)
                 /\ \A i, j \in 1..n :
                        (i < j /\ call.shapes[i] # <<>>
                               /\ call.shapes[j] # <<>>) =>
                            SectionStart(text, editors[i])
                                < SectionStart(text, editors[j])
                 /\ text = format_conversations_for_outline(
                               [call.state EXCEPT
                                   !.all_conversations =
                                       structured_conversations(
                                           editors, call.shapes,
                                           [k \in 1..n |-> k])])

\* Two editors with a conversation each, the second editor's key put into
\* all_conversations before the first's, were formatted.
C27_Witness ==
    /\ call.fn = "format_conversations_for_outline"
    /\ call.results # <<>>
    /\ Len(call.editors) = 2
    /\ call.order = <<2, 1>>
    /\ call.shapes[1] # <<>>
    /\ call.shapes[2] # <<>>
    /\ call.state.perspectives.kind = "object"
    /\ call.results[1] # <<>>

\* C28: when every external call returns, a serial session over one or more
\* editors eventually reaches END with is_complete true and returns.
C28_SerialSessionCompletes ==
    <>(/\ cpc = "done"
       /\ runs[1].node = "END"
       /\ runs[1].state.is_complete)

\* The edges of the interview graph.
GRAPH_EDGES ==
    {<<"initialize", "ask_question">>,
     <<"ask_question", "search_context">>,
     <<"search_context", "generate_answer">>,
     <<"generate_answer", "ask_question">>,
     <<"generate_answer", "next_editor">>,
     <<"generate_answer", "END">>,
     <<"next_editor", "ask_question">>,
     <<"next_editor", "END">>}

\* A message of an editor: neither the expert's nor a separator.
IsQuestion(message) ==
    /\ IsAI(message)
    /\ message.name \notin {EXPERT_NAME, SYSTEM_NAME}

\* The places in the registry of the editors a question is named after.
QuestionOwners(message, editors) ==
    {k \in 1..Len(editors) :
        /\ IsQuestion(message)
        /\ message.name = sanitize_name(editors[k].name)}

QuestionsInRegistryOrder(messages, editors) ==
    \A p \in DOMAIN messages : \A q \in DOMAIN messages :
        p < q =>
            /\ IsQuestion(messages[p]) =>
                   QuestionOwners(messages[p], editors) # {}
            /\ \A a \in QuestionOwners(messages[p], editors) :
                   \A b \in QuestionOwners(messages[q], editors) : a <= b

\* One step of the serial graph run: the run follows an edge of the graph
\* (or fails), the index moves by one and only in next_editor, the current
\* editor changes only in initialize and next_editor, and a question is
\* appended only by ask_question and is the current editor's.
SerialStepInOrder(before, after) ==
    LET old == before.state
        new == after.state
    IN  /\ after.node # before.node =>
               \/ after.node = "FAILED"
               \/ <<before.node, after.node>> \in GRAPH_EDGES
        /\ new.current_editor_index # old.current_editor_index =>
               /\ before.node = "next_editor"
               /\ new.current_editor_index = old.current_editor_index + 1
        /\ new.editor # old.editor =>
               before.node \in {"initialize", "next_editor"}
        /\ before.node = "initialize" /\ after.node = "ask_question" =>
               /\ new.current_editor_index = 0
               /\ new.editor = new.editors[1]
        /\ \A p \in (Len(old.messages) + 1)..Len(new.messages) :
               IsQuestion(new.messages[p]) =>
                   /\ before.node = "ask_question"
                   /\ old.current_editor_index < Len(old.editors)
                   /\ old.current_editor_index + 1
                          \in QuestionOwners(new.messages[p], old.editors)

\* C29: the serial run interviews the editors in registry order, starting
\* with the first: the questions in its log, and in the log returned, are in
\* registry order, every round goes ask, search, answer, route, and the run
\* turns to the next editor only in next_editor, where the router sent it.
C29_SerialInRegistryOrder ==
    /\ [](SerialSession /\ runs # <<>> =>
             QuestionsInRegistryOrder(runs[1].state.messages,
                                      runs[1].state.editors))
    /\ [](SerialSession /\ cpc = "done" =>
             QuestionsInRegistryOrder(output.messages, Registry))
    /\ [][SerialSession /\ runs # <<>> /\ runs' # <<>> =>
              SerialStepInOrder(runs[1], runs'[1])]_vars

\* A serial session over two editors returned a log with a question of each.
C29_Witness ==
    /\ SerialSession
    /\ cpc = "done"
    /\ output.returned
    /\ Len(Registry) = 2
    /\ \A k \in 1..2 :
           \E p \in DOMAIN output.messages :
               k \in QuestionOwners(output.messages[p], Registry)

\* C30: the reference map a serial session returns holds every entry of
\* the prior map, with the content it had, and every entry gathered during
\* the interview.
C30_SerialReferencesKept ==
    (SerialSession /\ cpc = "done" /\ output.returned) =>
        /\ \A k \in 1..Len(base.references) :
               HasEntry(output.references, base.references[k].url,
                        base.references[k].content)
        /\ \A k \in 1..Len(runs[1].state.references) :
               HasEntry(output.references, runs[1].state.references[k].url,
                        runs[1].state.references[k].content)

\* What run i wrote after the log it was given holds no separator, and
\* every question in it is named after the task's own editor.
OwnEditorOnly(i) ==
    LET own == runs[i].state.messages
    IN  \A p \in (Len(base.messages) + 1)..Len(own) :
            /\ own[p].name # SYSTEM_NAME
            /\ IsQuestion(own[p]) =>
                   own[p].name = sanitize_name(Registry[i].name)

\* C31: in parallel mode the run of task i has a registry of one editor,
\* the task's own: it asks only as that editor, appends no separator, and
\* its first next_editor step completes it.
C31_RunScopedToOneEditor ==
    /\ [](ParallelSession =>
             \A i \in DOMAIN runs :
                 /\ runs[i].node = "initialize" =>
                        runs[i].state.perspectives.editors = <<Registry[i]>>
                 /\ runs[i].state.editors \in {<<>>, <<Registry[i]>>}
                 /\ runs[i].state.editor \in {NoEditor, Registry[i]}
                 /\ OwnEditorOnly(i))
    /\ [][ParallelSession =>
              \A i \in DOMAIN runs :
                  (/\ i \in DOMAIN runs'
                   /\ runs[i].node = "next_editor"
                   /\ runs'[i] # runs[i]) =>
                      /\ runs'[i].node = "END"
                      /\ runs'[i].state.is_complete
                      /\ runs'[i].state.messages = runs[i].state.messages]_vars

\* The second task of a parallel session asked a question and was completed
\* by its next_editor step.
C31_Witness ==
    /\ ParallelSession
    /\ Len(runs) = 2
    /\ runs[2].node = "END"
    /\ runs[2].state.is_complete
    /\ \E p \in DOMAIN runs[2].state.messages :
           IsQuestion(runs[2].state.messages[p])

\* What a successful ask does to the state of a run.
AskStep(old, new) ==
    LET n == Len(old.messages)
    IN  /\ Len(new.messages) = n + 1
        /\ SubSeq(new.messages, 1, n) = old.messages
        /\ IsAI(new.messages[n + 1])
        /\ new.messages[n + 1].name = sanitize_name(old.editor.name)
        /\ new.references = old.references
        /\ new.editor = old.editor
        /\ new.editors = old.editors
        /\ new.current_editor_index = old.current_editor_index

\* C32: an ask that succeeds, through the structured call or through the
\* plain-text fallback, appends exactly one message named with the sanitized
\* name of the current editor and leaves the reference map, the current
\* editor, the registry and the index as they were.
C32_AskAppendsOneQuestion ==
    [][\A i \in DOMAIN runs :
           (/\ i \in DOMAIN runs'
            /\ runs[i].node = "ask_question"
            /\ runs'[i].node = "search_context") =>
               AskStep(runs[i].state, runs'[i].state)]_vars

\* An ask succeeded through the fallback, in a run in which an attempt of a
\* node failed.
C32_Witness ==
    /\ runs # <<>>
    /\ runs[1].node = "search_context"
    /\ "ask" \in performed
    /\ runs[1].state.messages # <<>>
    /\ budget.empties = MaxEmptyAnswers
    /\ budget.fallbacks < MaxFallbacks
    /\ budget.failures < MaxNodeFailures
    /\ LET log == runs[1].state.messages
       IN  /\ log[Len(log)].name = sanitize_name(runs[1].state.editor.name)
           /\ ~log[Len(log)].additional_kwargs.set

\* What a search that returns does to the state of a run: `found` tells
\* whether the search was made and returned results.
SearchStep(old, new, found) ==
    /\ new.messages = old.messages
    /\ new.editor = old.editor
    /\ new.editors = old.editors
    /\ new.current_editor_index = old.current_editor_index
    /\ \A k \in 1..Len(old.references) :
           HasEntry(new.references, old.references[k].url,
                    old.references[k].content)
    /\ ~found => new = old

\* C33: search_for_context leaves the log, the current editor, the registry
\* and the index as they were, keeps every entry of the reference map and
\* may add entries to it, and returns the state unchanged when the swapped
\* log holds no question or the search returns no results.
C33_SearchOnlyAddsReferences ==
    [][\A i \in DOMAIN runs :
           (/\ i \in DOMAIN runs'
            /\ runs[i].node = "search_context"
            /\ runs'[i].node = "generate_answer") =>
               SearchStep(runs[i].state, runs'[i].state,
                          /\ HasLastQuestion(runs[i].state)
                          /\ budget'.hits < budget.hits)]_vars

IndexInRegistry(state) ==
    LET n == Len(state.editors)
        index == state.current_editor_index
    IN  /\ 0 <= index
        /\ index <= n
        /\ index < n => state.editor = state.editors[index + 1]
        /\ state.is_complete => index = n
        /\ n = 0 => state.editor = NoEditor /\ ~state.is_complete

\* C35: in a serial session the index stays between 0 and the size of the
\* registry, never decreases and changes only by one and only in
\* next_editor, the current editor is the registry's editor at the index
\* while the index is within the registry, and is_complete is set only
\* with the index past the last editor.
C35_IndexInvariants ==
    /\ [](SerialSession /\ runs # <<>> =>
             /\ IndexInRegistry(runs[1].state)
             /\ runs[1].state.editors \in {<<>>, Registry})
    /\ [][SerialSession /\ runs # <<>> /\ runs' # <<>> =>
              LET old == runs[1].state.current_editor_index
                  new == runs'[1].state.current_editor_index
              IN  /\ new >= old
                  /\ new # old =>
                         /\ new = old + 1
                         /\ runs[1].node = "next_editor"]_vars

\* A serial run over two editors is complete, the index past the second.
C35_Witness ==
    /\ SerialSession
    /\ runs # <<>>
    /\ Len(runs[1].state.editors) = 2
    /\ runs[1].state.current_editor_index = 2
    /\ runs[1].state.is_complete
    /\ runs[1].node = "END"

\* C37: in a parallel session the permits held by running interviews and
\* the free permits add up to max_parallel_interviews, and an interview
\* that ends, by returning or by raising, gives its permit back.
C37_PermitsConserved ==
    /\ []((ParallelSession /\ cpc \in {"gather", "done", "raised"}
             /\ extract_editors_parallel(base.perspectives).ok) =>
              Cardinality(RunningTasks) + permits
                  = config.max_parallel_interviews)
    /\ [][ParallelSession =>
              \A i \in DOMAIN task :
                  (/\ i \in DOMAIN task'
                   /\ task[i] = "running"
                   /\ task'[i] \in {"done", "failed"}) =>
                      permits' = permits + 1]_vars

\* An interview of a parallel session raised, another is still waiting
\* for a permit, and every permit is free.
C37_Witness ==
    /\ ParallelSession
    /\ \E i \in DOMAIN task : task[i] = "failed"
    /\ \E i \in DOMAIN task : task[i] = "waiting"
    /\ permits = config.max_parallel_interviews

\* C36: in a parallel session in which every interview that holds a permit
\* comes to an end, every task is given a permit and comes to an end: none
\* waits for a permit for ever.
C36_NoTaskWaitsForever ==
    [](cpc = "gather" =>
          <>(\A i \in DOMAIN task : task[i] \in {"done", "failed"}))

\* With a ceiling of one, the second task was given the permit that the
\* first gave back when its interview raised, and came to its end.
C36_Witness ==
    /\ cpc \in {"gather", "raised"}
    /\ config.max_parallel_interviews = 1
    /\ Len(task) = 2
    /\ task[1] = "failed"
    /\ task[2] = "done"

\* What a ceiling of one returns for the results of the runs: the tasks
\* end one after the other, in registry order.
CeilingOneResult ==
    merge_results(base.messages, base.references, Registry,
                  gather_results(runs, [i \in DOMAIN runs |-> i]))

RECURSIVE TurnCalls(_)
TurnCalls(turns) ==
    IF turns = 0
    THEN <<>>
    ELSE TurnCalls(turns - 1) \o <<"question", "answer">>

\* C39: in the AutoGen variant an interview that returns made exactly
\* max_turns turns, each a question followed by its answer and recorded as
\* one InterviewTurn, and conduct_interviews returns one InterviewResult
\* for each perspective, in the order of the perspectives.
C39_AutogenTurnsAndOrder ==
    /\ \A i \in DOMAIN runs :
           ("max_turns" \in DOMAIN config /\ task[i] = "done") =>
               LET history == runs[i].state.interview_history
               IN  /\ Len(history) = config.max_turns
                   /\ runs[i].calls = TurnCalls(config.max_turns)
                   /\ \A k \in 1..Len(history) :
                          /\ history[k].question = <<"Q">> \o IntToStr(k)
                          /\ history[k].answer = ANSWER_TEXT
    /\ ("max_turns" \in DOMAIN config /\ cpc = "done") =>
           /\ Len(output.results) = Len(Registry)
           /\ \A i \in 1..Len(Registry) :
                  /\ output.results[i].editor_name = Registry[i].name
                  /\ Len(output.results[i].interview_history)
                         = config.max_turns

\* Two interviews of two turns returned, the second task ending first.
C39_Witness ==
    /\ "max_turns" \in DOMAIN config
    /\ cpc = "done"
    /\ config.max_turns = 2
    /\ Len(output.results) = 2
    /\ order = <<2, 1>>

====
